---- MODULE Spec2Model ----
(***************************************************************************)
(* Model of the cartesian axis conversion engine of plotly.js              *)
(* (src/plots/cartesian/set_convert.js): the category registry, the        *)
(* conversion table, cleanRange and setScale.                              *)
(*                                                                         *)
(* JavaScript values are records tagged by t:                              *)
(*   num  : a finite number, q its exact rational value                    *)
(*   nstr : a numeric string (String(q)), isNumeric but not a number       *)
(*   str  : a non-numeric string s                                         *)
(*   date : a valid date string denoting ms milliseconds                   *)
(*   pair : a two-element array [a, b] of strings                          *)
(*   arr  : an array with elements e                                       *)
(*   undef, null, nan, inf (sg = 1 or -1)                                  *)
(* Object keys are the string forms of values: a number and its numeric    *)
(* string give the same key.  An object made by {} answers the names it    *)
(* inherits from Object.prototype ("constructor") with a function, fn.     *)
(***************************************************************************)
EXTENDS Integers, Sequences, FiniteSets, TLC

VARIABLES axType, categories, categoriesMap, heapArr, heapMap,
          initialCategories, matchGroups, range, domain,
          ax_offset, ax_length, ax_m, ax_b, call, hist,
          ax_r, overlaying, replotting, size, dfltConsts, rangeObj, exposed,
          histogram

vars == <<axType, categories, categoriesMap, heapArr, heapMap,
          initialCategories, matchGroups, range, domain,
          ax_offset, ax_length, ax_m, ax_b, call, hist,
          ax_r, overlaying, replotting, size,
          dfltConsts, rangeObj, exposed, histogram>>

regVars == <<categories, categoriesMap, heapArr, heapMap>>
scaleVars == <<ax_offset, ax_length, ax_m, ax_b>>
\* the module's default ranges and, per axis, the array its range attribute is
dfltVars == <<dfltConsts, rangeObj>>
cfgVars == <<axType, initialCategories, matchGroups, overlaying, size, dfltVars, exposed,
             histogram>>

(***************************************************************************)
(* Exact rational arithmetic (numbers are kept in lowest terms).           *)
(***************************************************************************)
RECURSIVE GCD(_, _)
GCD(a, b) == IF b = 0 THEN a ELSE GCD(b, a % b)

Abs(a) == IF a < 0 THEN -a ELSE a

Rat(n, d) ==
    LET s == IF d < 0 THEN -1 ELSE 1
        g == GCD(Abs(n), Abs(d))
    IN [n |-> (s * n) \div g, d |-> (s * d) \div g]

R(n) == [n |-> n, d |-> 1]

RAdd(p, q) ==
    LET g == GCD(p.d, q.d)
    IN Rat(p.n * (q.d \div g) + q.n * (p.d \div g), (p.d \div g) * q.d)

RNeg(p) == [n |-> -p.n, d |-> p.d]

RSub(p, q) == RAdd(p, RNeg(q))

RMul(p, q) ==
    LET g1 == GCD(Abs(p.n), q.d)
        g2 == GCD(Abs(q.n), p.d)
    IN IF p.n = 0 \/ q.n = 0 THEN R(0)
       ELSE Rat((p.n \div g1) * (q.n \div g2), (p.d \div g2) * (q.d \div g1))

RInv(p) == Rat(p.d, p.n)

RLt(p, q) == RSub(p, q).n < 0

RLe(p, q) == RSub(p, q).n <= 0

RAbs(p) == [n |-> Abs(p.n), d |-> p.d]

RMax(p, q) == IF RLt(p, q) THEN q ELSE p

\* Math.floor of a rational
RFloor(p) == p.n \div p.d

\* Math.round: the nearest integer, halves rounded up
RRound(p) == (2 * p.n + p.d) \div (2 * p.d)

(***************************************************************************)
(* JavaScript values.                                                      *)
(***************************************************************************)
Undefined == [t |-> "undef"]
Null == [t |-> "null"]
NaN == [t |-> "nan"]
Inf(s) == [t |-> "inf", sg |-> s]
Num(q) == [t |-> "num", q |-> q]
NumI(n) == Num(R(n))
NStr(q) == [t |-> "nstr", q |-> q]
Str(s) == [t |-> "str", s |-> s]
Date(k) == [t |-> "date", ms |-> k]
Pair(x, y) == [t |-> "pair", a |-> x, b |-> y]
Arr(s) == [t |-> "arr", e |-> s]
Throw == [t |-> "throw"]
Fn(name) == [t |-> "fn", name |-> name]

BADNUM == Undefined

\* scaled stand-ins for the numeric limits of constants/numerical.js and lib/dates.js
FP_SAFE == 100000000
LOG_CLIP == 10
MIN_MS == -5000
MAX_MS == 5000
ONESEC == 1000
PPM == 1000000

IsNum(v) == v.t = "num"

\* fast-isnumeric: finite numbers and numeric strings
isNumeric(v) == v.t \in {"num", "nstr"}

\* the number a value coerces to (ToNumber)
ToNumber(v) ==
    CASE v.t \in {"num", "nstr"} -> Num(v.q)
      [] v.t = "null" -> NumI(0)
      [] v.t = "inf" -> v
      [] OTHER -> NaN

\* the key under which a value is stored in an object (ToString)
Key(v) ==
    CASE v.t \in {"num", "nstr"} -> [k |-> "n", q |-> v.q]
      [] v.t = "str" -> [k |-> "s", s |-> v.s]
      [] v.t = "pair" -> [k |-> "p", a |-> v.a, b |-> v.b]
      [] v.t = "date" -> [k |-> "d", ms |-> v.ms]
      [] OTHER -> [k |-> v.t]

JNeg(x) ==
    CASE x.t = "num" -> Num(RNeg(x.q))
      [] x.t = "inf" -> Inf(-x.sg)
      [] OTHER -> NaN

Sign(q) == IF q.n > 0 THEN 1 ELSE IF q.n < 0 THEN -1 ELSE 0

\* x + y on numbers
JAddN(x, y) ==
    CASE x.t = "nan" \/ y.t = "nan" -> NaN
      [] x.t = "inf" /\ y.t = "inf" -> IF x.sg = y.sg THEN x ELSE NaN
      [] x.t = "inf" -> x
      [] y.t = "inf" -> y
      [] OTHER -> Num(RAdd(x.q, y.q))

\* x * y on numbers
JMulN(x, y) ==
    CASE x.t = "nan" \/ y.t = "nan" -> NaN
      [] x.t = "inf" /\ y.t = "inf" -> Inf(x.sg * y.sg)
      [] x.t = "inf" -> IF Sign(y.q) = 0 THEN NaN ELSE Inf(x.sg * Sign(y.q))
      [] y.t = "inf" -> IF Sign(x.q) = 0 THEN NaN ELSE Inf(y.sg * Sign(x.q))
      [] OTHER -> Num(RMul(x.q, y.q))

\* x / y on numbers
JDivN(x, y) ==
    CASE x.t = "nan" \/ y.t = "nan" -> NaN
      [] x.t = "inf" /\ y.t = "inf" -> NaN
      [] x.t = "inf" -> Inf(x.sg * (IF Sign(y.q) < 0 THEN -1 ELSE 1))
      [] y.t = "inf" -> NumI(0)
      [] Sign(y.q) = 0 -> IF Sign(x.q) = 0 THEN NaN ELSE Inf(Sign(x.q))
      [] OTHER -> Num(RMul(x.q, RInv(y.q)))

JAdd(x, y) == JAddN(ToNumber(x), ToNumber(y))
JSub(x, y) == JAddN(ToNumber(x), JNeg(ToNumber(y)))
JMul(x, y) == JMulN(ToNumber(x), ToNumber(y))
JDiv(x, y) == JDivN(ToNumber(x), ToNumber(y))

\* x < y after ToNumber; false when either side is NaN
JLt(x, y) ==
    LET p == ToNumber(x)
        q == ToNumber(y)
    IN CASE p.t = "nan" \/ q.t = "nan" -> FALSE
         [] p.t = "inf" /\ q.t = "inf" -> p.sg < q.sg
         [] p.t = "inf" -> p.sg < 0
         [] q.t = "inf" -> q.sg > 0
         [] OTHER -> RLt(p.q, q.q)

JLe(x, y) == JLt(x, y) \/ (ToNumber(x).t # "nan" /\ ToNumber(x) = ToNumber(y))

\* isFinite(x)
isFinite(x) == ToNumber(x).t = "num"

\* x === y
StrictEq(x, y) == x.t # "nan" /\ x = y

\* d3.round(x, 2) = Math.round(x * 100) / 100
d3round2(x) ==
    IF x.t = "num" THEN Num(Rat(RRound(RMul(x.q, R(100))), 100)) ELSE x

(***************************************************************************)
(* String concatenation, for the places where + meets a numeric string.    *)
(***************************************************************************)
RECURSIVE Pow10(_)
Pow10(k) == IF k = 0 THEN 1 ELSE 10 * Pow10(k - 1)

RECURSIVE IntDigits(_)
IntDigits(n) == IF n < 10 THEN 1 ELSE 1 + IntDigits(n \div 10)

IsInt(q) == q.d = 1

\* the number of decimals of q (0 for an integer)
RECURSIVE FracDigits(_)
FracDigits(q) == IF IsInt(q) THEN 0 ELSE 1 + FracDigits(RMul(q, R(10)))

\* String(x) followed by String(y), for numeric x and y
Concat(x, y) ==
    LET sg == IF x.n < 0 THEN -1 ELSE 1
        dy == IntDigits(RFloor(y))
    IN CASE y.n < 0 -> Str("?")
         [] y.n >= 0 /\ IsInt(x) ->
                NStr(RAdd(RMul(x, R(Pow10(dy))), RMul(R(sg), y)))
         [] y.n >= 0 /\ ~IsInt(x) /\ IsInt(y) ->
                NStr(RAdd(x, RMul(R(sg), Rat(y.n, Pow10(FracDigits(x) + dy)))))
         [] OTHER -> Str("?")

\* x + y: concatenation when either side is a string, addition otherwise
JPlus(x, y) ==
    IF x.t \in {"nstr", "str"} \/ y.t \in {"nstr", "str"}
    THEN IF isNumeric(x) /\ isNumeric(y) THEN Concat(x.q, y.q) ELSE Str("?")
    ELSE JAdd(x, y)

\* Math.abs
JAbs(x) ==
    LET p == ToNumber(x)
    IN CASE p.t = "num" -> Num(RAbs(p.q))
         [] p.t = "inf" -> Inf(1)
         [] OTHER -> NaN

\* Math.max(x, y)
JMax(x, y) ==
    LET p == ToNumber(x)
        q == ToNumber(y)
    IN IF p.t = "nan" \/ q.t = "nan" THEN NaN ELSE IF JLt(p, q) THEN q ELSE p

(***************************************************************************)
(* Helpers of lib/ (cleanNumber, ensureNumber, dates) and the constants    *)
(* of plots/cartesian/constants.js.                                        *)
(***************************************************************************)
cleanNumber(v) == IF isNumeric(v) THEN Num(v.q) ELSE BADNUM

ensureNumber(v) ==
    IF ~isNumeric(v) THEN BADNUM
    ELSE IF RLt(v.q, R(-FP_SAFE)) \/ RLt(R(FP_SAFE), v.q) THEN BADNUM
    ELSE Num(v.q)

identity(v) == v

isDateTime(v) == v.t = "date"

\* a date string, or a JS Date of the given ms, to ms
dateTime2ms(v) == IF v.t = "date" THEN NumI(v.ms) ELSE BADNUM

\* dateTime2ms(new Date(k)) for an integer k
dateOfMs2ms(k) == IF k >= MIN_MS /\ k <= MAX_MS THEN NumI(k) ELSE BADNUM

ms2DateTime(v) ==
    IF IsNum(v) /\ RLe(R(MIN_MS), v.q) /\ RLe(v.q, R(MAX_MS)) /\ IsInt(v.q)
    THEN Date(v.q.n) ELSE BADNUM

cleanDate(v, dflt) ==
    IF v = BADNUM THEN dflt
    ELSE IF IsNum(v)
         THEN (IF ms2DateTime(v) = BADNUM THEN dflt ELSE ms2DateTime(v))
         ELSE IF ~isDateTime(v) THEN dflt ELSE v

constrain(q, lo, hi) == IF RLt(q, lo) THEN lo ELSE IF RLt(hi, q) THEN hi ELSE q

dfltRange == Arr(<<Date(1000), Date(2000)>>)
DFLTRANGEX == Arr(<<NumI(-1), NumI(6)>>)
DFLTRANGEY == Arr(<<NumI(-1), NumI(4)>>)

\* Math.log(v) / Math.LN10, on the powers of ten of the value universe
Log10(q) == CHOOSE k \in -3..9 : IF k >= 0 THEN q = R(Pow10(k)) ELSE q = Rat(1, Pow10(-k))

(***************************************************************************)
(* The axis object: a snapshot of the fields the conversions read.         *)
(*   id, type, range, m, b : ax._id, ax.type, ax.range, ax._m, ax._b       *)
(*   hasCats, cats : whether ax._categories is set, and its elements       *)
(*   hasMap, map   : whether ax._categoriesMap is set, and its entries     *)
(***************************************************************************)
axLetter(id) == IF id \in {"y", "y2"} THEN "y" ELSE "x"

fromLog(v) ==
    LET p == ToNumber(v)
    IN IF p.t = "num"
       THEN (IF p.q.n >= 0 THEN Num(R(Pow10(p.q.n))) ELSE Num(Rat(1, Pow10(-p.q.n))))
       ELSE IF p = Inf(1) THEN p ELSE IF p = Inf(-1) THEN NumI(0) ELSE NaN

isValidCategory(v) == v # Null /\ v # Undefined

\* toLog clipping to LOG_CLIP lengths below the lower end of the range
toLog_fromEdge(a, v, clip) ==
    IF JLt(NumI(0), v) THEN NumI(Log10(ToNumber(v).q))
    ELSE IF JLe(v, NumI(0)) /\ clip /\ a.range.t = "arr" /\ Len(a.range.e) = 2
    THEN JSub(IF JLt(a.range.e[1], a.range.e[2]) THEN a.range.e[1] ELSE a.range.e[2],
              JMul(NumI(LOG_CLIP), JAbs(JSub(a.range.e[1], a.range.e[2]))))
    ELSE BADNUM

toLog(a, v, clip) ==
    IF JLt(NumI(0), v) THEN NumI(Log10(ToNumber(v).q))
    ELSE IF JLe(v, NumI(0)) /\ clip /\ a.range.t = "arr" /\ Len(a.range.e) = 2
    THEN LET r0 == a.range.e[1]
             r1 == a.range.e[2]
         IN JMul(Num(Rat(1, 2)),
                 JSub(JPlus(r0, r1), JMul(NumI(2 * LOG_CLIP), JAbs(JSub(r0, r1)))))
    ELSE BADNUM

dt2ms(v) ==
    LET ms == dateTime2ms(v)
    IN IF ms = BADNUM
       THEN IF isNumeric(v)
            THEN LET x == RAdd(v.q, Rat(1, 20))
                     msecTenths == RFloor(RMul(RSub(x, R(RFloor(x))), R(10)))
                     msRounded == RRound(RSub(v.q, Rat(msecTenths, 10)))
                 IN JAdd(dateOfMs2ms(msRounded), Num(Rat(msecTenths, 10)))
            ELSE BADNUM
       ELSE ms

ms2dt(v) == ms2DateTime(v)

getCategoryName(a, v) ==
    LET p == ToNumber(v)
    IN IF a.hasCats /\ p.t = "num" /\ RRound(p.q) >= 0 /\ RRound(p.q) < Len(a.cats)
       THEN a.cats[RRound(p.q) + 1]
       ELSE IF a.hasCats THEN Undefined ELSE Throw

\* the names an object literal inherits, of those in the label universe
Inherited == {"constructor"}

\* map[v] of an object literal with the given own entries
lookup(map, v) ==
    IF Key(v) \in DOMAIN map THEN NumI(map[Key(v)])
    ELSE IF v.t = "str" /\ v.s \in Inherited THEN Fn(v.s)
    ELSE Undefined

getCategoryIndex(a, v) == IF a.hasMap THEN lookup(a.map, v) ELSE Undefined

getCategoryPosition(a, v) ==
    LET index == getCategoryIndex(a, v)
    IN IF index # Undefined THEN index
       ELSE IF isNumeric(v) THEN Num(v.q) ELSE Undefined

\* l2p without its test of the argument
l2p_unguarded(a, v) == d3round2(JAdd(a.b, JMul(a.m, v)))

l2p(a, v) ==
    IF ~isNumeric(v) THEN BADNUM
    ELSE d3round2(JAdd(a.b, JMul(a.m, v)))

\* line 180 without the offset _b
p2l_unshifted(a, px) == JDiv(px, a.m)

p2l(a, px) == JDiv(JSub(px, a.b), a.m)

(***************************************************************************)
(* The conversion table of setConvert, one operator per entry, dispatching *)
(* on ax.type as the assignments of lines 183-297 do.                      *)
(***************************************************************************)
IsLinear(a) == a.type \in {"linear", "-"}
IsCat(a) == a.type \in {"category", "multicategory"}

c2l(a, v, clip) == IF a.type = "log" THEN toLog(a, v, clip) ELSE ensureNumber(v)

l2c(a, v) == IF a.type = "log" THEN fromLog(v) ELSE ensureNumber(v)

c2p(a, v, clip) == IF a.type = "log" THEN l2p(a, toLog(a, v, clip)) ELSE l2p(a, v)

r2l(a, v) ==
    CASE IsLinear(a) -> cleanNumber(v)
      [] a.type = "log" -> cleanNumber(v)
      [] a.type = "date" -> dt2ms(v)
      [] OTHER -> getCategoryPosition(a, v)

l2r(a, v) ==
    CASE a.type = "date" -> ms2dt(v)
      [] OTHER -> ensureNumber(v)

\* ax.fraction2r; reading ax.range[0] of a missing range is a TypeError
fraction2r(a, f) ==
    IF a.range.t # "arr" THEN Throw
    ELSE LET r0 == IF Len(a.range.e) >= 1 THEN a.range.e[1] ELSE Undefined
             r1 == IF Len(a.range.e) >= 2 THEN a.range.e[2] ELSE Undefined
             rl0 == r2l(a, r0)
             rl1 == r2l(a, r1)
         IN l2r(a, JPlus(rl0, JMul(f, JSub(rl1, rl0))))

\* ax.r2fraction
r2fraction(a, v) ==
    IF a.range.t # "arr" THEN Throw
    ELSE LET r0 == IF Len(a.range.e) >= 1 THEN a.range.e[1] ELSE Undefined
             r1 == IF Len(a.range.e) >= 2 THEN a.range.e[2] ELSE Undefined
             rl0 == r2l(a, r0)
             rl1 == r2l(a, r1)
         IN JDiv(JSub(r2l(a, v), rl0), JSub(rl1, rl0))

d2r(a, v, clip) ==
    CASE IsLinear(a) -> cleanNumber(v)
      [] a.type = "log" -> toLog(a, cleanNumber(v), clip)
      [] a.type = "date" -> identity(v)
      [] OTHER -> getCategoryPosition(a, v)

r2c(a, v) ==
    CASE IsLinear(a) -> cleanNumber(v)
      [] a.type = "log" -> fromLog(cleanNumber(v))
      [] a.type = "date" -> dt2ms(v)
      [] OTHER -> LET index == getCategoryPosition(a, v)
                  IN IF index # Undefined THEN index
                     ELSE fraction2r(a, Num(Rat(1, 2)))

\* l2p of the value of a call; a call that raised raises on
l2pOf(a, x) == IF x = Throw THEN Throw ELSE l2p(a, x)

\* d2p taking the data value of a log axis for its linearized value
d2p_unlogged(a, v, clip) ==
    CASE a.type \in {"linear", "log"} -> l2p(a, cleanNumber(v))
      [] a.type = "date" -> l2p(a, dt2ms(v))
      [] OTHER -> l2pOf(a, r2c(a, v))

d2p(a, v, clip) ==
    CASE IsLinear(a) -> l2p(a, cleanNumber(v))
      [] a.type = "log" -> l2p(a, d2r(a, v, clip))
      [] a.type = "date" -> l2p(a, dt2ms(v))
      [] OTHER -> l2pOf(a, r2c(a, v))

r2p(a, v, clip) ==
    CASE a.type = "log" -> l2p(a, cleanNumber(v))
      [] OTHER -> d2p(a, v, clip)

\* d2c and d2l of the types whose entries do not touch the registry
d2c_pure(a, v) ==
    CASE IsLinear(a) -> cleanNumber(v)
      [] a.type = "log" -> cleanNumber(v)
      [] a.type = "date" -> dt2ms(v)

d2l_pure(a, v, clip) ==
    CASE IsLinear(a) -> cleanNumber(v)
      [] a.type = "log" -> toLog(a, cleanNumber(v), clip)
      [] a.type = "date" -> dt2ms(v)

(***************************************************************************)
(* The category registry.  ax._categories and ax._categoriesMap are        *)
(* references: axes of a match group may hold the same array and the same  *)
(* map object.  heapArr and heapMap hold the objects; reference 0 is       *)
(* undefined.  An object no axis refers to is garbage.                     *)
(***************************************************************************)
Axes == {"x", "x2", "y"}
Refs == 1..Cardinality(Axes)
EmptyMap == [k \in {} |-> 0]

Store == [cats |-> categories, maps |-> categoriesMap, arr |-> heapArr, map |-> heapMap]

\* objects that no axis refers to are dropped
Collect(st) ==
    [st EXCEPT !.arr = [r \in Refs |-> IF \E ax \in Axes : st.cats[ax] = r
                                        THEN st.arr[r] ELSE <<>>],
               !.map = [r \in Refs |-> IF \E ax \in Axes : st.maps[ax] = r
                                        THEN st.map[r] ELSE EmptyMap]]

\* a reference that no axis other than ax holds
FreshRef(ax, held) ==
    CHOOSE r \in Refs : /\ \A ax2 \in Axes \ {ax} : held[ax2] # r
                        /\ \A r2 \in Refs : (\A ax2 \in Axes \ {ax} : held[ax2] # r2) => r <= r2

\* ax._categoriesMap = {}
newMap(st, ax) ==
    LET r == FreshRef(ax, st.maps)
    IN [st EXCEPT !.maps[ax] = r, !.map[r] = EmptyMap]

\* emptyCategories of clearCalc
emptyCategories(st, ax) ==
    LET r == FreshRef(ax, st.cats)
        st1 == [st EXCEPT !.cats[ax] = r, !.arr[r] = <<>>]
    IN newMap(st1, ax)

\* setCategoryIndex recording the length after the push as the index
setCategoryIndex_length(st, ax, v) ==
    IF isValidCategory(v)
    THEN LET st1 == IF st.maps[ax] = 0 THEN newMap(st, ax) ELSE st
             mr == st1.maps[ax]
             cr == st1.cats[ax]
         IN IF lookup(st1.map[mr], v) # Undefined
            THEN [st |-> st1, ret |-> lookup(st1.map[mr], v)]
            ELSE IF cr = 0
                 THEN [st |-> st1, ret |-> Throw]
                 ELSE [st |-> [st1 EXCEPT !.arr[cr] = Append(st1.arr[cr], v),
                                          !.map[mr] = st1.map[mr] @@
                                                      (Key(v) :> Len(st1.arr[cr]) + 1)],
                       ret |-> NumI(Len(st1.arr[cr]) + 1)]
    ELSE [st |-> st, ret |-> BADNUM]

\* setCategoryIndex: the store after the call and the value returned
setCategoryIndex(st, ax, v) ==
    IF isValidCategory(v)
    THEN LET st1 == IF st.maps[ax] = 0 THEN newMap(st, ax) ELSE st
             mr == st1.maps[ax]
             cr == st1.cats[ax]
         IN IF lookup(st1.map[mr], v) # Undefined
            THEN [st |-> st1, ret |-> lookup(st1.map[mr], v)]
            ELSE IF cr = 0
                 THEN [st |-> st1, ret |-> Throw]
                 ELSE LET pushed == Append(st1.arr[cr], v)
                          curLength == Len(pushed) - 1
                      IN [st |-> [st1 EXCEPT !.arr[cr] = pushed,
                                             !.map[mr] = st1.map[mr] @@ (Key(v) :> curLength)],
                          ret |-> NumI(curLength)]
    ELSE [st |-> st, ret |-> BADNUM]

\* the loop of lines 608-612 over ax._initialCategories
RECURSIVE seedInitial(_, _, _)
seedInitial(st, ax, init) ==
    IF init = <<>> THEN st
    ELSE seedInitial(setCategoryIndex(st, ax, Head(init)).st, ax, Tail(init))

\* the first group of fullLayout._axisMatchGroups that holds the axis (0: none)
groupOf(groups, ax) ==
    IF \E i \in 1..Len(groups) : \E j \in 1..Len(groups[i]) : groups[i][j] = ax
    THEN CHOOSE i \in 1..Len(groups) :
            /\ \E j \in 1..Len(groups[i]) : groups[i][j] = ax
            /\ \A i2 \in 1..(i - 1) : \A j \in 1..Len(groups[i2]) : groups[i2][j] # ax
    ELSE 0

\* the first axis of the group, in key order, whose _categories is set (0: none)
firstWithCategories(st, group) ==
    IF \E j \in 1..Len(group) : st.cats[group[j]] # 0
    THEN CHOOSE j \in 1..Len(group) :
            /\ st.cats[group[j]] # 0
            /\ \A j2 \in 1..(j - 1) : st.cats[group[j2]] = 0
    ELSE 0

\* clearCalc without the match groups
clearCalc_ungrouped(st, ax, groups, init) ==
    Collect(seedInitial(emptyCategories(st, ax), ax, init))

\* clearCalc without the initial categories
clearCalc_unseeded(st, ax, groups, init) ==
    LET g == groupOf(groups, ax)
        j == IF g = 0 THEN 0 ELSE firstWithCategories(st, groups[g])
    IN Collect(IF Len(groups) > 0 /\ g # 0 /\ j # 0 /\ st.maps[groups[g][j]] # 0
               THEN [st EXCEPT !.cats[ax] = st.cats[groups[g][j]],
                               !.maps[ax] = st.maps[groups[g][j]]]
               ELSE emptyCategories(st, ax))

\* ax.clearCalc
clearCalc(st, ax, groups, init) ==
    LET g == groupOf(groups, ax)
        j == IF g = 0 THEN 0 ELSE firstWithCategories(st, groups[g])
        st1 == IF Len(groups) > 0 /\ g # 0 /\ j # 0 /\ st.maps[groups[g][j]] # 0
               THEN [st EXCEPT !.cats[ax] = st.cats[groups[g][j]],
                               !.maps[ax] = st.maps[groups[g][j]]]
               ELSE emptyCategories(st, ax)
    IN Collect(seedInitial(st1, ax, init))

\* the axis object as the conversions read it
MkAx(id, type, rng, m, b, st) ==
    [id |-> id, type |-> type, range |-> rng, m |-> m, b |-> b,
     hasCats |-> st.cats[id] # 0,
     cats |-> IF st.cats[id] # 0 THEN st.arr[st.cats[id]] ELSE <<>>,
     hasMap |-> st.maps[id] # 0,
     map |-> IF st.maps[id] # 0 THEN st.map[st.maps[id]] ELSE EmptyMap]

Ax(id) == MkAx(id, axType[id], range[id], ax_m[id], ax_b[id], Store)

(***************************************************************************)
(* cleanRange.  The attribute holds an array (or nothing); the loop of     *)
(* lines 413-448 runs for i = 0, 1 and may break.  A pass gives the array  *)
(* after it, whether the loop broke, and whether the attribute was         *)
(* replaced by the default.                                                *)
(***************************************************************************)
elem(rng, i) == IF i < Len(rng) THEN rng[i + 1] ELSE Undefined

setElem(rng, i, v) == [rng EXCEPT ![i + 1] = v]

\* the default range of lines 394-396
dfltOf(a, optsDflt) ==
    IF a.type = "date" THEN dfltConsts.d
    ELSE IF axLetter(a.id) = "y" THEN dfltConsts.y
    ELSE IF optsDflt # Undefined THEN optsDflt ELSE dfltConsts.x

\* the array the default of lines 394-396 is: one of the module's constants,
\* or the caller's own opts.dfltRange
dfltObj(a, optsDflt) ==
    IF a.type = "date" THEN "d"
    ELSE IF axLetter(a.id) = "y" THEN "y"
    ELSE IF optsDflt # Undefined THEN "own" ELSE "x"

\* line 399 without the copy: the default itself is handed on
slice_shared(obj) == obj

\* line 399, dflt.slice(): the copy is an array of its own
slice(obj) == "own"

\* lines 422-425: the split by one second about the constrained centre
splitDate(a, linCenter) ==
    <<l2r(a, Num(RSub(linCenter, R(ONESEC)))), l2r(a, Num(RAdd(linCenter, R(ONESEC))))>>

\* lines 420-426 with the centre taken as it is, not constrained
datePassLin_unconstrained(a, rng, rl0, rl1) ==
    IF StrictEq(rl0, rl1)
    THEN [rng |-> splitDate(a, ToNumber(rl0).q), brk |-> TRUE, dflt |-> FALSE]
    ELSE [rng |-> rng, brk |-> FALSE, dflt |-> FALSE]

datePassLin(a, rng, rl0, rl1) ==
    IF StrictEq(rl0, rl1)
    THEN [rng |-> splitDate(a, constrain(ToNumber(rl0).q,
                                         R(MIN_MS + ONESEC), R(MAX_MS - ONESEC))),
          brk |-> TRUE, dflt |-> FALSE]
    ELSE [rng |-> rng, brk |-> FALSE, dflt |-> FALSE]

\* lines 414-427: one pass of the loop on a date axis
datePass(a, rng, i) ==
    IF ~isDateTime(elem(rng, i))
    THEN [rng |-> rng, brk |-> TRUE, dflt |-> TRUE]
    ELSE datePassLin(a, rng, r2l(a, elem(rng, 0)), r2l(a, elem(rng, 1)))

\* lines 438-439: the clamp to the safe bound
clampSafe(v) ==
    IF JLt(v, NumI(-FP_SAFE)) THEN NumI(-FP_SAFE)
    ELSE IF JLt(NumI(FP_SAFE), v) THEN NumI(FP_SAFE)
    ELSE v

\* lines 441-446: the split of two equal endpoints
splitBy(rng, inc) == <<JSub(elem(rng, 0), inc), JPlus(elem(rng, 1), inc)>>

splitEqual(rng) ==
    IF StrictEq(elem(rng, 0), elem(rng, 1))
    THEN splitBy(rng, JMax(NumI(1), JAbs(JMul(elem(rng, 0), Num(Rat(1, PPM))))))
    ELSE rng

\* lines 429-431 with the factor 10 for either endpoint
synthesize_tenfold(rng, i) ==
    IF ~isNumeric(elem(rng, i))
    THEN setElem(rng, i, JMul(elem(rng, 1 - i), NumI(10)))
    ELSE rng

\* lines 429-431: an invalid endpoint made from the valid one
synthesize(rng, i) ==
    IF ~isNumeric(elem(rng, i))
    THEN setElem(rng, i, JMul(elem(rng, 1 - i), IF i = 1 THEN NumI(10) ELSE Num(Rat(1, 10))))
    ELSE rng

clampElem(rng, i) == setElem(rng, i, clampSafe(elem(rng, i)))

\* lines 429-446: one pass of the loop on a numeric axis
numPass(rng, i) ==
    IF ~isNumeric(elem(rng, i)) /\ ~isNumeric(elem(rng, 1 - i))
    THEN [rng |-> rng, brk |-> TRUE, dflt |-> TRUE]
    ELSE [rng |-> splitEqual(clampElem(synthesize(rng, i), i)), brk |-> FALSE, dflt |-> FALSE]

rangePass(a, rng, i) == IF a.type = "date" THEN datePass(a, rng, i) ELSE numPass(rng, i)

\* the attribute once the loop has ended
loopEnd(dflt, p) == IF p.dflt THEN dflt ELSE Arr(p.rng)

\* the pass for i = 1, unless the pass for i = 0 broke
secondPass(a, p) == IF p.brk THEN p ELSE rangePass(a, p.rng, 1)

\* lines 406-411: the endpoints of a date axis are cleaned first
cleanEnds(a, rng) ==
    IF a.type = "date"
    THEN <<cleanDate(rng[1], BADNUM), cleanDate(rng[2], BADNUM)>>
    ELSE rng

\* ax.cleanRange(rangeAttr, opts): the value of the attribute after the call
cleanRange(a, attr, optsDflt) ==
    IF attr.t # "arr" \/ Len(attr.e) # 2 THEN dfltOf(a, optsDflt)
    ELSE loopEnd(dfltOf(a, optsDflt), secondPass(a, rangePass(a, cleanEnds(a, attr.e), 0)))

\* lines 401-404, 415-418, 433-434: the call assigns the copied default
defaulted(a, attr) ==
    \/ attr.t # "arr"
    \/ Len(attr.e) # 2
    \/ secondPass(a, rangePass(a, cleanEnds(a, attr.e), 0)).dflt

\* the array the attribute was before the call, after the call's writes to
\* its elements (lines 407-408, 424-425, 430, 438-439, 444-445)
writtenRange(a, attr, optsDflt) ==
    IF attr.t # "arr" \/ Len(attr.e) # 2 THEN attr
    ELSE IF defaulted(a, attr) THEN Arr(cleanEnds(a, attr.e))
    ELSE cleanRange(a, attr, optsDflt)

\* the array the attribute is after the call
rangeObjAfter(a, attr, optsDflt, obj) ==
    IF defaulted(a, attr) THEN slice(dfltObj(a, optsDflt)) ELSE obj

\* the module's defaults after the call: a write to the elements of an array
\* that is one of them changes it
dfltConstsAfter(a, attr, optsDflt, obj) ==
    IF obj = "own" THEN dfltConsts
    ELSE [dfltConsts EXCEPT ![obj] = writtenRange(a, attr, optsDflt)]

(***************************************************************************)
(* setScale.  gs is fullLayout._size: [l, t, w, h].  The result holds the  *)
(* fields the call assigns and whether it threw.                           *)
(***************************************************************************)
\* lines 485-488
\* the check of line 485 without its test of the length
scaleCheck_finiteOnly(cleaned, offset, length, m, b) ==
    [cleaned |-> cleaned, offset |-> offset, length |-> length, m |-> m, b |-> b,
     threw |-> ~isFinite(m) \/ ~isFinite(b)]

scaleCheck(cleaned, offset, length, m, b) ==
    [cleaned |-> cleaned, offset |-> offset, length |-> length, m |-> m, b |-> b,
     threw |-> ~isFinite(m) \/ ~isFinite(b) \/ JLt(length, NumI(0))]

\* ax._b taken at the other end of the range
scaleB_otherEnd(isY, cleaned, offset, length, m, rl0, rl1) ==
    scaleCheck(cleaned, offset, length, m,
               IF isY THEN JMul(JNeg(m), rl0) ELSE JMul(JNeg(m), rl1))

\* lines 477 and 482: ax._b
scaleB(isY, cleaned, offset, length, m, rl0, rl1) ==
    scaleCheck(cleaned, offset, length, m,
               IF isY THEN JMul(JNeg(m), rl1) ELSE JMul(JNeg(m), rl0))

\* lines 476 and 481: ax._m
scaleM(isY, cleaned, offset, length, rl0, rl1) ==
    scaleB(isY, cleaned, offset, length,
           IF isY THEN JDiv(length, JSub(rl0, rl1)) ELSE JDiv(length, JSub(rl1, rl0)),
           rl0, rl1)

\* lines 470-475 and 479-480: the linearized range, ax._offset and ax._length
scaleOf(a, dom, gs, cleaned) ==
    scaleM(axLetter(a.id) = "y", cleaned,
           IF axLetter(a.id) = "y"
           THEN JAdd(gs.t, JMul(JSub(NumI(1), dom[2]), gs.h))
           ELSE JAdd(gs.l, JMul(dom[1], gs.w)),
           JMul(IF axLetter(a.id) = "y" THEN gs.h ELSE gs.w, JSub(dom[2], dom[1])),
           r2l(a, cleaned.e[1]), r2l(a, cleaned.e[2]))

\* whether setScale works on ax._r rather than ax.range (line 466)
usePrivate(r_, usePrivateRange) == usePrivateRange /\ r_ # Undefined

\* ax.setScale(usePrivateRange), dom being the domain after line 459
setScale(a, dom, rng, r_, gs, usePrivateRange) ==
    scaleOf(a, dom, gs,
            cleanRange(a, IF usePrivate(r_, usePrivateRange) THEN r_ ELSE rng, Undefined))

(***************************************************************************)
(* The conversion entries as calls.  call records the last call: the       *)
(* entry, the axis, the arguments and the value returned (Throw when the   *)
(* call raised).                                                           *)
(***************************************************************************)
Types == {"linear", "log", "date", "category", "multicategory"}

NoCall == [op |-> "none", ax |-> "x", arg |-> Undefined, clip |-> FALSE, ret |-> Undefined]

\* the entries setConvert assigns for a type
Entries(type) ==
    {"c2l", "c2p", "l2p", "d2r", "r2c", "r2l", "d2p", "r2p"}
    \cup (IF type # "multicategory" THEN {"d2c", "d2l"} ELSE {"r2c_just_indices"})
    \cup (IF type \in {"category", "multicategory"} THEN {"d2l_noadd"} ELSE {})

\* a call of an entry, were d2r of a category axis to insert as d2c does
convert_inserting(st, a, op, v, ret) ==
    IF a.type = "category" /\ op \in {"d2c", "d2l", "d2r"}
    THEN setCategoryIndex(st, a.id, v)
    ELSE [st |-> st, ret |-> ret]

\* a call of an entry: the store after it and the value returned, ret being
\* the value of an entry that does not write the registry
convert(st, a, op, v, ret) ==
    IF a.type = "category" /\ op \in {"d2c", "d2l"}
    THEN setCategoryIndex(st, a.id, v)
    ELSE [st |-> st, ret |-> ret]

SetStore(st) ==
    /\ categories' = st.cats
    /\ categoriesMap' = st.maps
    /\ heapArr' = st.arr
    /\ heapMap' = st.map

\* the argument universe of the conversions
CatArgs == {Str("a"), NumI(1), Str("constructor"), Null, Undefined}
Args == CatArgs \cup {NStr(R(1)), NumI(0), NumI(-1), NumI(100), NumI(10000), Str("zz"), NaN,
                      Date(1000), Pair("a", "p")}

\* the largest power of ten the model computes
MaxExp == 4

ConvCall(ax, op, v, clip, res) ==
    /\ (axType[ax] = "category" /\ op \in {"d2c", "d2l"}) => v \in CatArgs
    /\ clip => axType[ax] = "log"
    /\ (axType[ax] = "log" /\ op = "r2c" /\ isNumeric(v)) => RLe(RAbs(v.q), R(MaxExp))
    /\ SetStore(res.st)
    /\ call' = [op |-> op, ax |-> ax, arg |-> v, clip |-> clip, ret |-> res.ret]
    /\ UNCHANGED <<cfgVars, scaleVars, range, domain, ax_r, replotting, hist>>

(***************************************************************************)
(* The axis as constructed: no registry, no range, no scale.               *)
(***************************************************************************)
BlankStore ==
    [cats |-> [ax \in Axes |-> 0], maps |-> [ax \in Axes |-> 0],
     arr |-> [r \in Refs |-> <<>>], map |-> [r \in Refs |-> EmptyMap]]

FullDomain == <<NumI(0), NumI(1)>>

InitBlank(types, groups, inits, st) ==
    /\ axType = types
    /\ matchGroups = groups
    /\ initialCategories = inits
    /\ categories = st.cats
    /\ categoriesMap = st.maps
    /\ heapArr = st.arr
    /\ heapMap = st.map
    /\ replotting = TRUE
    /\ call = NoCall
    /\ hist = <<>>
    /\ dfltConsts = [d |-> dfltRange, x |-> DFLTRANGEX, y |-> DFLTRANGEY]
    /\ rangeObj = [ax \in Axes |-> "own"]
    /\ exposed = [ax \in Axes |-> Entries(types[ax])]

\* a plot without histogram traces
NoHistogram ==
    [data |-> <<>>, overlay |-> FALSE, opts |-> <<>>, others |-> <<>>, bingroup |-> <<>>,
     warned |-> <<>>, names |-> <<>>]

\* fullLayout._size of a 100 x 100 plot area
ConvSize == [l |-> NumI(0), t |-> NumI(0), w |-> NumI(100), h |-> NumI(100)]

\* no axis overlays another, and no transition has set _r
InitPlain ==
    /\ histogram = NoHistogram
    /\ size = ConvSize
    /\ overlaying = [ax \in Axes |-> ""]
    /\ ax_r = [ax \in Axes |-> Undefined]

InitUnscaled ==
    /\ InitPlain
    /\ range = [ax \in Axes |-> Undefined]
    /\ domain = [ax \in Axes |-> FullDomain]
    /\ ax_offset = [ax \in Axes |-> Undefined]
    /\ ax_length = [ax \in Axes |-> Undefined]
    /\ ax_m = [ax \in Axes |-> Undefined]
    /\ ax_b = [ax \in Axes |-> Undefined]

NoInits == [ax \in Axes |-> <<>>]

(***************************************************************************)
(* SpecConv: the conversion entries of one axis "x", of any type, either   *)
(* as constructed or after clearCalc, the registration of some categories  *)
(* and setScale on a 100 x 100 plot area.                                  *)
(***************************************************************************)
ConvRegs(ty) ==
    CASE ty = "category" -> {<<>>, <<Str("a")>>, <<NumI(1), Str("a")>>}
      [] ty = "multicategory" -> {<<>>, <<Pair("a", "p")>>}
      [] OTHER -> {<<>>}

ConvRanges(ty) ==
    IF ty = "date"
    THEN {Arr(<<Date(0), Date(2000)>>), Arr(<<Date(2000), Date(0)>>)}
    ELSE {Arr(<<NumI(0), NumI(2)>>), Arr(<<NumI(2), NumI(0)>>)}
         \cup (IF ty = "log" THEN {Arr(<<NStr(R(2)), NStr(R(-1))>>)} ELSE {})

OnlyX(v) == [ax \in Axes |-> IF ax = "x" THEN v ELSE Undefined]

InitScaled(sc) ==
    /\ InitPlain
    /\ ~sc.threw
    /\ range = OnlyX(sc.cleaned)
    /\ domain = [ax \in Axes |-> FullDomain]
    /\ ax_offset = OnlyX(sc.offset)
    /\ ax_length = OnlyX(sc.length)
    /\ ax_m = OnlyX(sc.m)
    /\ ax_b = OnlyX(sc.b)

ConvStore(ty, labs) ==
    IF ty \in {"category", "multicategory"}
    THEN clearCalc(BlankStore, "x", <<>>, labs)
    ELSE BlankStore

InitConvOf(ty, st, rin) ==
    /\ InitBlank([ax \in Axes |-> ty], <<>>, NoInits, st)
    /\ IF rin = Undefined
       THEN InitUnscaled
       ELSE InitScaled(setScale(MkAx("x", ty, rin, Undefined, Undefined, st),
                                FullDomain, rin, Undefined, ConvSize, FALSE))

InitConv ==
    \E ty \in Types :
      \E labs \in ConvRegs(ty), rin \in ConvRanges(ty) \cup {Undefined} :
        InitConvOf(ty, ConvStore(ty, labs), rin)

ClipArgs == BOOLEAN

D2C ==
    \E v \in Args, clip \in ClipArgs :
        /\ "d2c" \in Entries(axType["x"])
        /\ ConvCall("x", "d2c", v, clip,
                    convert(Store, Ax("x"), "d2c", v, d2c_pure(Ax("x"), v)))
D2L ==
    \E v \in Args, clip \in ClipArgs :
        /\ "d2l" \in Entries(axType["x"])
        /\ ConvCall("x", "d2l", v, clip,
                    convert(Store, Ax("x"), "d2l", v, d2l_pure(Ax("x"), v, clip)))
D2R ==
    \E v \in Args, clip \in ClipArgs :
        /\ "d2r" \in Entries(axType["x"])
        /\ ConvCall("x", "d2r", v, clip,
                    convert(Store, Ax("x"), "d2r", v, d2r(Ax("x"), v, clip)))
D2P ==
    \E v \in Args, clip \in ClipArgs :
        /\ "d2p" \in Entries(axType["x"])
        /\ ConvCall("x", "d2p", v, clip,
                    convert(Store, Ax("x"), "d2p", v, d2p(Ax("x"), v, clip)))
R2C ==
    \E v \in Args, clip \in ClipArgs :
        /\ "r2c" \in Entries(axType["x"])
        /\ ConvCall("x", "r2c", v, clip,
                    convert(Store, Ax("x"), "r2c", v, r2c(Ax("x"), v)))
R2L ==
    \E v \in Args, clip \in ClipArgs :
        /\ "r2l" \in Entries(axType["x"])
        /\ ConvCall("x", "r2l", v, clip,
                    convert(Store, Ax("x"), "r2l", v, r2l(Ax("x"), v)))
R2P ==
    \E v \in Args, clip \in ClipArgs :
        /\ "r2p" \in Entries(axType["x"])
        /\ ConvCall("x", "r2p", v, clip,
                    convert(Store, Ax("x"), "r2p", v, r2p(Ax("x"), v, clip)))
C2L ==
    \E v \in Args, clip \in ClipArgs :
        /\ "c2l" \in Entries(axType["x"])
        /\ ConvCall("x", "c2l", v, clip,
                    convert(Store, Ax("x"), "c2l", v, c2l(Ax("x"), v, clip)))
C2P ==
    \E v \in Args, clip \in ClipArgs :
        /\ "c2p" \in Entries(axType["x"])
        /\ ConvCall("x", "c2p", v, clip,
                    convert(Store, Ax("x"), "c2p", v, c2p(Ax("x"), v, clip)))
L2P ==
    \E v \in Args, clip \in ClipArgs :
        /\ "l2p" \in Entries(axType["x"])
        /\ ConvCall("x", "l2p", v, clip,
                    convert(Store, Ax("x"), "l2p", v, l2p(Ax("x"), v)))
D2L_noadd ==
    \E v \in Args, clip \in ClipArgs :
        /\ "d2l_noadd" \in Entries(axType["x"])
        /\ ConvCall("x", "d2l_noadd", v, clip,
                    convert(Store, Ax("x"), "d2l_noadd", v, getCategoryPosition(Ax("x"), v)))
R2C_just_indices ==
    \E v \in Args, clip \in ClipArgs :
        /\ "r2c_just_indices" \in Entries(axType["x"])
        /\ ConvCall("x", "r2c_just_indices", v, clip,
                    convert(Store, Ax("x"), "r2c_just_indices", v, getCategoryIndex(Ax("x"), v)))

NextConv ==
    \/ D2C \/ D2L \/ D2R \/ D2P \/ R2C \/ R2L \/ R2P
    \/ C2L \/ C2P \/ L2P \/ D2L_noadd \/ R2C_just_indices

SpecConv == InitConv /\ [][NextConv]_vars

(***************************************************************************)
(* SpecCat: one category axis "x" whose registry clearCalc has emptied,    *)
(* and calls of d2c (setCategoryIndex); hist lists the labels passed.      *)
(***************************************************************************)
CatLabels == {Str("a"), Str("b"), NumI(1), NStr(R(1)), Str("constructor"), Null, Undefined}

\* the longest sequence of d2c calls followed
MaxCalls == 4

InitCat ==
    /\ InitBlank([ax \in Axes |-> "category"], <<>>, NoInits,
                 clearCalc(BlankStore, "x", <<>>, <<>>))
    /\ InitUnscaled

SetCategoryIndex ==
    \E v \in CatLabels :
        /\ Len(hist) < MaxCalls
        /\ LET res == convert(Store, Ax("x"), "d2c", v, Undefined)
           IN /\ SetStore(res.st)
              /\ call' = [op |-> "d2c", ax |-> "x", arg |-> v, clip |-> FALSE, ret |-> res.ret]
        /\ hist' = Append(hist, v)
        /\ UNCHANGED <<cfgVars, scaleVars, range, domain, ax_r, replotting>>

NextCat == SetCategoryIndex

SpecCat == InitCat /\ [][NextCat]_vars

(***************************************************************************)
(* SpecReg: three category axes as constructed, with or without match      *)
(* groups and initial categories, and any interleaving of clearCalc, d2c   *)
(* and d2r on them; d2c is called on an axis once clearCalc has given it   *)
(* the array that setCategoryIndex pushes on.                              *)
(***************************************************************************)
RegLabels == {Str("a"), NumI(1)}

\* fullLayout._axisMatchGroups: each group lists its axis ids in key order
RegGroups == {<<>>, <<<<"x", "x2">>>>, <<<<"y">>, <<"x2", "x">>>>}

RegInits ==
    {NoInits,
     [ax \in Axes |-> IF ax = "x" THEN <<Str("a")>>
                      ELSE IF ax = "x2" THEN <<NumI(1), Str("a"), NumI(1)>>
                      ELSE <<Str("constructor"), NumI(1)>>]}

InitReg ==
    \E g \in RegGroups, i \in RegInits :
        /\ InitBlank([ax \in Axes |-> "category"], g, i, BlankStore)
        /\ InitUnscaled

ClearCalcOn(ax) ==
    /\ SetStore(clearCalc(Store, ax, matchGroups, initialCategories[ax]))
    /\ call' = [op |-> "clearCalc", ax |-> ax, arg |-> Undefined, clip |-> FALSE,
                ret |-> Undefined]
    /\ UNCHANGED <<cfgVars, scaleVars, range, domain, ax_r, replotting, hist>>

ClearCalc == \E ax \in Axes : ClearCalcOn(ax)

Register ==
    \E ax \in Axes, v \in RegLabels :
        /\ categories[ax] # 0
        /\ ConvCall(ax, "d2c", v, FALSE, convert(Store, Ax(ax), "d2c", v, Undefined))

Lookup ==
    \E ax \in Axes, v \in RegLabels :
        /\ "d2r" \in Entries(axType[ax])
        /\ ConvCall(ax, "d2r", v, FALSE,
                    convert(Store, Ax(ax), "d2r", v, d2r(Ax(ax), v, FALSE)))

NextReg == ClearCalc \/ Register \/ Lookup

SpecReg == InitReg /\ [][NextReg]_vars

(***************************************************************************)
(* setupMultiCategory.  fullData is a sequence of traces; a trace names    *)
(* the axis its points lie on and lists them, a point giving the entries   *)
(* v0 = arrayIn[0][j] and v1 = arrayIn[1][j].                              *)
(***************************************************************************)
Pt(v0, v1) == [v0 |-> v0, v1 |-> v1]

\* ax._traceIndices: the traces of fullData that lie on the axis
traceIndices(ax, fullData) ==
    SelectSeq([i \in 1..Len(fullData) |-> i], LAMBDA i : fullData[i].ax = ax)

RECURSIVE concatPeers(_, _, _)
concatPeers(ax, group, fullData) ==
    IF group = <<>> THEN <<>>
    ELSE (IF Head(group) # ax THEN traceIndices(Head(group), fullData) ELSE <<>>)
         \o concatPeers(ax, Tail(group), fullData)

\* lines 303-316: the indices of the peers' traces, group after group
RECURSIVE peerIndices(_, _, _)
peerIndices(ax, groups, fullData) ==
    IF groups = <<>> THEN <<>>
    ELSE (IF \E j \in 1..Len(Head(groups)) : Head(groups)[j] = ax
          THEN concatPeers(ax, Head(groups), fullData) ELSE <<>>)
         \o peerIndices(ax, Tail(groups), fullData)

gatherIndices(a, groups, fullData) ==
    traceIndices(a.id, fullData)
    \o (IF Len(groups) > 0 /\ Len(a.cats) = 0 THEN peerIndices(a.id, groups, fullData) ELSE <<>>)

\* the points of the traces of the given indices, in order
RECURSIVE pointsOf(_, _)
pointsOf(indices, fullData) ==
    IF indices = <<>> THEN <<>>
    ELSE fullData[Head(indices)].pts \o pointsOf(Tail(indices), fullData)

\* v in map, for a map made by {}
inMap(map, v) == Key(v) \in DOMAIN map \/ (v.t = "str" /\ v.s \in Inherited)

\* lines 337-342: seen[k] after the value v
seeValue(seen, v) ==
    IF inMap(seen.map, v) THEN seen
    ELSE [cnt |-> seen.cnt + 1, map |-> seen.map @@ (Key(v) :> seen.cnt)]

NoneSeen == [cnt |-> 0, map |-> EmptyMap]

\* lines 320-347: list and seen after the points
RECURSIVE scanPoints(_, _)
scanPoints(pts, acc) ==
    IF pts = <<>> THEN acc
    ELSE scanPoints(Tail(pts),
                    IF isValidCategory(Head(pts).v0) /\ isValidCategory(Head(pts).v1)
                    THEN [list |-> Append(acc.list, Head(pts)),
                          seen0 |-> seeValue(acc.seen0, Head(pts).v0),
                          seen1 |-> seeValue(acc.seen1, Head(pts).v1)]
                    ELSE acc)

\* the sign of x - y for two entries of a seen map; a difference with an
\* inherited member is NaN, which list.sort takes for +0 and "if(d)" for false
signOfDiff(x, y) ==
    IF IsNum(x) /\ IsNum(y) THEN Sign(RSub(x.q, y.q)) ELSE 0

\* lines 349-356: the comparator of list.sort
compare(acc, a, b) ==
    IF signOfDiff(lookup(acc.seen0.map, a.v0), lookup(acc.seen0.map, b.v0)) # 0
    THEN signOfDiff(lookup(acc.seen0.map, a.v0), lookup(acc.seen0.map, b.v0))
    ELSE signOfDiff(lookup(acc.seen1.map, a.v1), lookup(acc.seen1.map, b.v1))

\* whether the comparator orders the elements of the list consistently
consistent(acc) ==
    LET E == {acc.list[i] : i \in 1..Len(acc.list)}
    IN /\ \A a, b \in E : compare(acc, a, b) = -compare(acc, b, a)
       /\ \A a, b, c \in E :
             /\ (compare(acc, a, b) < 0 /\ compare(acc, b, c) < 0) => compare(acc, a, c) < 0
             /\ (compare(acc, a, b) = 0 /\ compare(acc, b, c) = 0) => compare(acc, a, c) = 0

\* a sorted list with one more element, put behind those not greater
RECURSIVE insertSorted(_, _, _)
insertSorted(acc, sorted, x) ==
    IF sorted = <<>> THEN <<x>>
    ELSE IF compare(acc, sorted[Len(sorted)], x) <= 0 THEN Append(sorted, x)
    ELSE Append(insertSorted(acc, SubSeq(sorted, 1, Len(sorted) - 1), x), sorted[Len(sorted)])

\* the stable sort of the first n elements of the list
RECURSIVE stableSort(_, _)
stableSort(acc, n) ==
    IF n = 0 THEN <<>> ELSE insertSorted(acc, stableSort(acc, n - 1), acc.list[n])

\* the arrays list.sort may leave: the stable order under a consistent
\* comparator, an implementation-defined order under any other
sortResults(acc) ==
    IF consistent(acc) THEN {stableSort(acc, Len(acc.list))}
    ELSE {[i \in 1..Len(acc.list) |-> acc.list[p[i]]] : p \in Permutations(1..Len(acc.list))}

\* lines 358-360: setCategoryIndex(list[i]) for the sorted list
RECURSIVE registerPairs(_, _, _)
registerPairs(st, ax, list) ==
    IF list = <<>> THEN st
    ELSE registerPairs(setCategoryIndex(st, ax, Pair(Head(list).v0.s, Head(list).v1.s)).st,
                       ax, Tail(list))

\* what setupMultiCategory has scanned when it sorts
scanned(a, groups, fullData) ==
    scanPoints(pointsOf(gatherIndices(a, groups, fullData), fullData),
               [list |-> <<>>, seen0 |-> NoneSeen, seen1 |-> NoneSeen])

(***************************************************************************)
(* SpecMulti: two multicategory axes, matched or not, each with one trace; *)
(* clearCalc and then setupMultiCategory run on them for up to MaxSetups   *)
(* data sets.  hist lists the axes set up.                                 *)
(***************************************************************************)
MaxPts == 3
MaxSetups == 2

MultiPts == {Pt(Str("b"), Str("p")), Pt(Str("b"), Str("q")), Pt(Str("constructor"), Str("p"))}

SeqsUpTo(S, n) == UNION {[1..k -> S] : k \in 0..n}

DataSets ==
    {<<[ax |-> "x", pts |-> p], [ax |-> "x2", pts |-> p2]>> :
        p \in SeqsUpTo(MultiPts, MaxPts), p2 \in {<<>>, <<Pt(Str("a"), Str("q")), Pt(Null, Str("p"))>>}}

MultiGroups == {<<>>, <<<<"x", "x2">>>>}

MultiAxes == {"x", "x2"}

InitMulti ==
    \E g \in MultiGroups :
        /\ InitBlank([ax \in Axes |-> "multicategory"], g, NoInits, BlankStore)
        /\ InitUnscaled

ClearCalcMulti == \E ax \in MultiAxes : ClearCalcOn(ax)

SetupMultiCategory ==
    \E ax \in MultiAxes, fullData \in DataSets :
        /\ categories[ax] # 0
        /\ Len(hist) < MaxSetups
        /\ \E sorted \in sortResults(scanned(Ax(ax), matchGroups, fullData)) :
              SetStore(registerPairs(Store, ax, sorted))
        /\ call' = [op |-> "setupMultiCategory", ax |-> ax, arg |-> fullData,
                    clip |-> FALSE, ret |-> Undefined]
        /\ hist' = Append(hist, ax)
        /\ UNCHANGED <<cfgVars, scaleVars, range, domain, ax_r, replotting>>

NextMulti == ClearCalcMulti \/ SetupMultiCategory

SpecMulti == InitMulti /\ [][NextMulti]_vars

(***************************************************************************)
(* SpecRange: the range attribute of the axes "x" and "y", of any type, as *)
(* the layout gives it, and cleanRange on it.  On a category axis the      *)
(* label "5" may be registered.                                            *)
(***************************************************************************)
RangeAxes == {"x", "y"}

RangeVals(ty) ==
    IF ty = "date"
    THEN {Date(0), Date(MAX_MS), NumI(1000), Str("zz"), Null}
    ELSE {NumI(0), NumI(5), NumI(-5), NStr(R(5)), NumI(2 * FP_SAFE), Null}

\* the attribute as the layout may hold it: absent, of a wrong length, a couplet
RangeInputs(ty) ==
    {Undefined} \cup {Arr(<<v>>) : v \in RangeVals(ty)}
                \cup {Arr(<<v, w>>) : v, w \in RangeVals(ty)}

RangeRegs(ty) == IF ty = "category" THEN {<<>>, <<NStr(R(5))>>} ELSE {<<>>}

InitRange ==
    \E ty \in Types :
      \E labs \in RangeRegs(ty) :
        /\ InitBlank([ax \in Axes |-> ty], <<>>, NoInits,
                     IF ty = "category"
                     THEN clearCalc(clearCalc(BlankStore, "x", <<>>, labs), "y", <<>>, labs)
                     ELSE BlankStore)
        /\ InitUnscaled

\* the ranges given to the axis: every input on x, the absent one and the
\* couplets of one repeated value on y
RangeInputsOf(ax, ty) ==
    IF ax = "x" THEN RangeInputs(ty)
    ELSE {Undefined} \cup {Arr(<<v, v>>) : v \in RangeVals(ty)}

SetRange ==
    \E ax \in RangeAxes :
      \E r \in RangeInputsOf(ax, axType[ax]) :
        /\ range' = [range EXCEPT ![ax] = r]
        /\ rangeObj' = [rangeObj EXCEPT ![ax] = "own"]
        /\ call' = [op |-> "setRange", ax |-> ax, arg |-> r, clip |-> FALSE, ret |-> Undefined]
        /\ UNCHANGED <<axType, initialCategories, matchGroups, overlaying, size, dfltConsts,
                       exposed, histogram, regVars, scaleVars, domain, ax_r, replotting,
                       hist>>

\* ax.cleanRange('range', opts), opts being absent or {dfltRange: [0, 1]}
CleanRange ==
    \E ax \in RangeAxes, optsDflt \in {Undefined, Arr(<<NumI(0), NumI(1)>>)} :
        /\ range' = [range EXCEPT ![ax] = cleanRange(Ax(ax), range[ax], optsDflt)]
        /\ rangeObj' = [rangeObj EXCEPT
                          ![ax] = rangeObjAfter(Ax(ax), range[ax], optsDflt, rangeObj[ax])]
        /\ dfltConsts' = dfltConstsAfter(Ax(ax), range[ax], optsDflt, rangeObj[ax])
        /\ call' = [op |-> "cleanRange", ax |-> ax, arg |-> range[ax], clip |-> FALSE,
                    ret |-> Undefined, opts |-> optsDflt]
        /\ UNCHANGED <<axType, initialCategories, matchGroups, overlaying, size, exposed,
                       histogram, regVars, scaleVars, domain, ax_r, replotting, hist>>

NextRange == SetRange \/ CleanRange

SpecRange == InitRange /\ [][NextRange]_vars

(***************************************************************************)
(* SpecScale: the axes "x" and "y" and the axis "x2", which overlays "x",   *)
(* of one type, with the domain, range and _r the layout and a transition  *)
(* gave them and the plot area fullLayout._size, and setScale on them.     *)
(***************************************************************************)
Sizes ==
    {[l |-> NumI(80), t |-> NumI(100), w |-> NumI(800), h |-> NumI(400)],
     [l |-> NumI(0), t |-> NumI(0), w |-> NumI(801), h |-> NumI(801)]}

Domains == {FullDomain, <<NumI(0), Num(Rat(1, 8))>>, <<Num(Rat(1, 2)), NumI(1)>>,
            <<NumI(1), NumI(0)>>, <<Num(Rat(1, 2)), Num(Rat(1, 2))>>}

ScaleRanges(ty) ==
    IF ty = "date"
    THEN {Undefined, Arr(<<Date(0), Date(2000)>>), Arr(<<Date(1000), Date(1000)>>)}
    ELSE {Undefined, Arr(<<NumI(0), NumI(10)>>), Arr(<<NumI(3), NumI(0)>>),
          Arr(<<NumI(5), NStr(R(5))>>)}

PrivateRanges(ty) ==
    IF ty = "date" THEN {Undefined, Arr(<<Date(0), Date(1000)>>)}
    ELSE {Undefined, Arr(<<NumI(0), NumI(4)>>)}

InitScale ==
    \E ty \in Types \ {"multicategory"}, gs \in Sizes :
      \E d \in Domains, r \in ScaleRanges(ty), rp \in PrivateRanges(ty) :
        /\ InitBlank([ax \in Axes |-> ty], <<>>, NoInits, BlankStore)
        /\ histogram = NoHistogram
        /\ size = gs
        /\ overlaying = [ax \in Axes |-> IF ax = "x2" THEN "x" ELSE ""]
        /\ range = [ax \in Axes |-> r]
        /\ ax_r = [ax \in Axes |-> rp]
        /\ domain = [ax \in Axes |-> IF ax = "x2" THEN FullDomain ELSE d]
        /\ ax_offset = [ax \in Axes |-> Undefined]
        /\ ax_length = [ax \in Axes |-> Undefined]
        /\ ax_m = [ax \in Axes |-> Undefined]
        /\ ax_b = [ax \in Axes |-> Undefined]

\* lines 457-460: the domain setScale works with
domainOf(ax) == IF overlaying[ax] # "" THEN domain[overlaying[ax]] ELSE domain[ax]

\* the assignments of a setScale call whose computation gave sc
SetScaleTo(ax, usePrivateRange, sc) ==
    /\ domain' = [domain EXCEPT ![ax] = domainOf(ax)]
    /\ range' = [range EXCEPT ![ax] = IF usePrivate(ax_r[ax], usePrivateRange)
                                      THEN range[ax] ELSE sc.cleaned]
    /\ ax_r' = [ax_r EXCEPT ![ax] = IF usePrivate(ax_r[ax], usePrivateRange)
                                    THEN sc.cleaned ELSE ax_r[ax]]
    /\ ax_offset' = [ax_offset EXCEPT ![ax] = sc.offset]
    /\ ax_length' = [ax_length EXCEPT ![ax] = sc.length]
    /\ ax_m' = [ax_m EXCEPT ![ax] = sc.m]
    /\ ax_b' = [ax_b EXCEPT ![ax] = sc.b]
    /\ replotting' = IF sc.threw THEN FALSE ELSE replotting
    /\ call' = [op |-> "setScale", ax |-> ax, arg |-> Undefined, clip |-> usePrivateRange,
                ret |-> IF sc.threw THEN Throw ELSE Undefined]

SetScale ==
    \E ax \in Axes, usePrivateRange \in BOOLEAN :
        /\ SetScaleTo(ax, usePrivateRange,
                      setScale(Ax(ax), domainOf(ax), range[ax], ax_r[ax], size, usePrivateRange))
        /\ UNCHANGED <<cfgVars, regVars, hist>>

NextScale == SetScale

SpecScale == InitScale /\ [][NextScale]_vars

(***************************************************************************)
(* makeCalcdata.  A trace is a record of what the call reads:              *)
(*   has, v     : whether the field axLetter is in the trace, and its value *)
(*   len        : trace._length                                            *)
(*   has0, v0   : whether axLetter + '0' is in the trace, and its value     *)
(*   dv         : trace['d' + axLetter]                                    *)
(*   other      : the array of the opposite letter                        *)
(* The call gives the store after it and the array returned (Throw when    *)
(* it raised).                                                             *)
(***************************************************************************)
Typed(s) == [t |-> "typed", e |-> s]

isTypedArray(v) == v.t = "typed"

isArrayOrTypedArray(v) == v.t \in {"arr", "typed"}

RECURSIVE minOfRows(_)
minOfRows(rows) ==
    IF Len(rows) = 1 THEN Len(rows[1].e)
    ELSE IF Len(rows[1].e) < minOfRows(Tail(rows)) THEN Len(rows[1].e)
    ELSE minOfRows(Tail(rows))

\* Lib.minRowLength: the length of an array, the least length of its rows
\* when it holds arrays, 0 for anything else
minRowLength(z) ==
    IF ~isArrayOrTypedArray(z) THEN 0
    ELSE IF Len(z.e) > 0 /\ isArrayOrTypedArray(z.e[1]) THEN minOfRows(z.e)
    ELSE Len(z.e)

\* trace._length || fallback
rowLen(len, fallback) == IF IsNum(len) /\ len # NumI(0) THEN len.q.n ELSE fallback

\* z[i], i counting from 0
elemAt(z, i) == IF isArrayOrTypedArray(z) /\ i < Len(z.e) THEN z.e[i + 1] ELSE Undefined

\* the axis with the registry of the store st
AxOf(ax, st) == MkAx(ax, axType[ax], range[ax], ax_m[ax], ax_b[ax], st)

\* typed.subarray(0, len)
subarray(z, len) == Typed(SubSeq(z.e, 1, IF len < Len(z.e) THEN len ELSE Len(z.e)))

\* String(v) of a component of a pair
strOf(v) == IF v.t = "str" THEN v.s ELSE ""

\* (arrayIn[k] || [])[i], k counting from 0
rowElem(arrayIn, k, i) == elemAt(elemAt(arrayIn, k), i)

\* lines 147-157
RECURSIVE setMultiCategoryIndex(_, _, _, _, _)
setMultiCategoryIndex(a, arrayIn, len, i, arrayOut) ==
    IF i >= len THEN Arr(arrayOut)
    ELSE setMultiCategoryIndex(a, arrayIn, len, i + 1,
            Append(arrayOut,
                   getCategoryIndex(a, Pair(strOf(rowElem(arrayIn, 0, i)),
                                            strOf(rowElem(arrayIn, 1, i))))))

\* ax.d2c(v), which raises on a type that has no d2c entry
d2cCall(st, ax, v) ==
    IF "d2c" \notin Entries(axType[ax]) THEN [st |-> st, ret |-> Throw]
    ELSE convert(st, AxOf(ax, st), "d2c", v, d2c_pure(AxOf(ax, st), v))

\* lines 522-525: arrayOut[i] = ax.d2c(arrayIn[i]) for i < len
RECURSIVE convertEach(_, _, _, _, _, _)
RECURSIVE convertNext(_, _, _, _, _, _)
convertEach(st, ax, arrayIn, len, i, arrayOut) ==
    IF i >= len THEN [st |-> st, ret |-> Arr(arrayOut)]
    ELSE convertNext(d2cCall(st, ax, elemAt(arrayIn, i)), ax, arrayIn, len, i, arrayOut)

convertNext(r, ax, arrayIn, len, i, arrayOut) ==
    IF r.ret = Throw THEN r
    ELSE convertEach(r.st, ax, arrayIn, len, i + 1, Append(arrayOut, r.ret))

\* lines 533-537: arrayOut[i] = v0 + i * dv for i < len
RECURSIVE sequenceOf(_, _, _, _, _)
sequenceOf(v0, dv, len, i, arrayOut) ==
    IF i >= len THEN Arr(arrayOut)
    ELSE sequenceOf(v0, dv, len, i + 1, Append(arrayOut, JAdd(v0, JMul(NumI(i), dv))))

\* lines 510-525, len being that of line 508
presentPath(st, ax, arrayIn, len) ==
    IF isTypedArray(arrayIn) /\ axType[ax] \in {"linear", "log"}
    THEN [st |-> st, ret |-> IF len = Len(arrayIn.e) THEN arrayIn ELSE subarray(arrayIn, len)]
    ELSE IF axType[ax] = "multicategory"
    THEN [st |-> st, ret |-> setMultiCategoryIndex(AxOf(ax, st), arrayIn, len, 0, <<>>)]
    ELSE convertEach(st, ax, arrayIn, len, 0, <<>>)

\* lines 528-537, r being the call of d2c that gave v0 (line 527)
absentPath(r, trace) ==
    IF r.ret = Throw THEN r
    ELSE IF ~(IsNum(trace.len) /\ trace.len # NumI(0)) /\ ~isArrayOrTypedArray(trace.other)
    THEN [st |-> r.st, ret |-> Throw]
    ELSE [st |-> r.st,
          ret |-> sequenceOf(r.ret,
                             IF trace.dv # Undefined /\ trace.dv # NumI(0)
                             THEN ToNumber(trace.dv) ELSE NumI(1),
                             rowLen(trace.len, Len(trace.other.e)), 0, <<>>)]

\* ax.makeCalcdata(trace, axLetter)
makeCalcdata(st, ax, trace) ==
    IF trace.has
    THEN presentPath(st, ax, trace.v, rowLen(trace.len, minRowLength(trace.v)))
    ELSE absentPath(IF trace.has0 THEN d2cCall(st, ax, trace.v0)
                    ELSE [st |-> st, ret |-> NumI(0)],
                    trace)

(***************************************************************************)
(* SpecCalc: makeCalcdata on the traces of one axis "x" of any type, its   *)
(* registry created by clearCalc (with one pair registered on a            *)
(* multicategory axis).                                                    *)
(***************************************************************************)
CalcArrays(ty) ==
    CASE ty \in {"linear", "log"} ->
            {Arr(<<NumI(1), Str("zz"), NumI(-1)>>), Typed(<<NumI(1), NumI(100)>>), Arr(<<>>)}
      [] ty = "date" -> {Arr(<<Date(1000), Str("zz")>>), Typed(<<NumI(1), NumI(100)>>)}
      [] ty = "category" -> {Arr(<<Str("a"), Null, Str("a"), NumI(1)>>), Arr(<<Str("a")>>)}
      [] OTHER -> {Arr(<<Arr(<<Str("a"), Str("b")>>), Arr(<<Str("p")>>)>>),
                   Arr(<<Arr(<<Str("a")>>)>>)}

CalcLengths == {Undefined, NumI(0), NumI(1), NumI(3)}

CalcOthers == {Undefined, Arr(<<NumI(1), NumI(2), NumI(3), NumI(4)>>)}

CalcStarts == {NumI(5), Str("zz")}

CalcSteps == {Undefined, NumI(2), NumI(0)}

\* the traces that carry the field
PresentTraces(ty) ==
    {[has |-> TRUE, v |-> v, len |-> len, has0 |-> FALSE, v0 |-> Undefined,
      dv |-> Undefined, other |-> other] :
        v \in CalcArrays(ty), len \in CalcLengths, other \in CalcOthers}

\* the traces that do not
AbsentTraces ==
    {[has |-> FALSE, v |-> Undefined, len |-> len, has0 |-> FALSE, v0 |-> Undefined,
      dv |-> dv, other |-> other] :
        len \in CalcLengths, dv \in CalcSteps, other \in CalcOthers}
    \cup
    {[has |-> FALSE, v |-> Undefined, len |-> len, has0 |-> TRUE, v0 |-> v0,
      dv |-> dv, other |-> other] :
        len \in CalcLengths, dv \in CalcSteps, other \in CalcOthers, v0 \in CalcStarts}

InitCalc ==
    \E ty \in Types :
      \E labs \in ConvRegs(ty) :
        /\ InitBlank([ax \in Axes |-> ty], <<>>, NoInits, ConvStore(ty, labs))
        /\ InitUnscaled

MakeCalcdataOf(trace, res) ==
    /\ SetStore(res.st)
    /\ call' = [op |-> "makeCalcdata", ax |-> "x", arg |-> trace, clip |-> FALSE,
                ret |-> res.ret]
    /\ UNCHANGED <<cfgVars, scaleVars, range, domain, ax_r, replotting, hist>>

MakeCalcdata ==
    \E trace \in PresentTraces(axType["x"]) \cup AbsentTraces :
        /\ trace.has0 => ~trace.has
        /\ MakeCalcdataOf(trace, makeCalcdata(Store, "x", trace))

NextCalc == MakeCalcdata

SpecCalc == InitCalc /\ [][NextCalc]_vars

(***************************************************************************)
(* crossTraceDefaults of the histogram traces.  histogram.data is fullData *)
(* (histogram traces only), a trace being its uid, whether it is a 2D map, *)
(* its orientation, its two axes and the bingroup of its input, "" for     *)
(* none.  A group name is held by its origin: the axes and the direction   *)
(* of a set that must match, a bingroup given, or a uid and a direction.   *)
(* opts is fullLayout._histogramBinOpts in the order of its keys, a list   *)
(* of traces being the list of their places in fullData.  The bin          *)
(* attributes relinked by lines 194-233 are not held.                      *)
(***************************************************************************)
AxesName(tr, d) == [k |-> "axes", x |-> tr.xaxis, y |-> tr.yaxis, d |-> d]

GivenName(g) == [k |-> "given", s |-> g]

OwnName(tr, d) == [k |-> "uid", uid |-> tr.uid, d |-> d]

NoName == [k |-> "none"]

\* coerce('bingroup'): the name given, or none
coerceBingroup(tr) == IF tr.bingroup = "" THEN NoName ELSE GivenName(tr.bingroup)

orientation2binDir(tr) == IF tr.orientation = "v" THEN "x" ELSE "y"

getAxisType(tr, binDir) == axType[IF binDir = "x" THEN tr.xaxis ELSE tr.yaxis]

SeqRange(q) == {q[j] : j \in 1..Len(q)}

Places(n) == [i \in 1..n |-> i]

\* allBinOpts[name], 0 standing for no entry
placeOf(opts, name) ==
    IF \E j \in 1..Len(opts) : opts[j].name = name
    THEN CHOOSE j \in 1..Len(opts) : opts[j].name = name
    ELSE 0

\* allBinOpts[entry.name] = entry
putOpts(opts, entry) ==
    IF placeOf(opts, entry.name) = 0 THEN Append(opts, entry)
    ELSE [opts EXCEPT ![placeOf(opts, entry.name)] = entry]

\* lines 82-83: the traces that have to match
mustMatch(h, i) == ~h.overlay /\ ~h.data[i].is2d

\* the keys of mustMatchTracesLookup, in the order of their insertion
RECURSIVE mustKeys(_, _, _)
mustKeys(h, i, acc) ==
    IF i > Len(h.data) THEN acc
    ELSE mustKeys(h, i + 1,
                  IF mustMatch(h, i)
                     /\ AxesName(h.data[i], orientation2binDir(h.data[i])) \notin SeqRange(acc)
                  THEN Append(acc, AxesName(h.data[i], orientation2binDir(h.data[i])))
                  ELSE acc)

\* mustMatchTracesLookup[key]
mustSet(h, key) ==
    SelectSeq(Places(Len(h.data)),
              LAMBDA i : mustMatch(h, i)
                         /\ AxesName(h.data[i], orientation2binDir(h.data[i])) = key)

\* lines 118-137, name being binGroupFound || groupName
forceGroup(h, w, traces, name) ==
    [w EXCEPT
       !.warned = @ \o SelectSeq(traces, LAMBDA i : /\ h.data[i].bingroup # ""
                                                     /\ GivenName(h.data[i].bingroup) # name),
       !.bingroup = [i \in 1..Len(h.data) |-> IF i \in SeqRange(traces) THEN name ELSE @[i]],
       !.opts = putOpts(@, [name |-> name, traces |-> traces,
                            binDir |-> orientation2binDir(h.data[traces[Len(traces)]]),
                            axType |-> getAxisType(h.data[traces[Len(traces)]],
                                          orientation2binDir(h.data[traces[Len(traces)]]))])]

\* lines 101-137: one pass of the loop over mustMatchTracesLookup
mustGroup(h, w, key, traces) ==
    IF Len(traces) = 1 THEN [w EXCEPT !.others = Append(@, traces[1])]
    ELSE forceGroup(h, w, traces,
                    IF coerceBingroup(h.data[traces[1]]) # NoName
                    THEN coerceBingroup(h.data[traces[1]]) ELSE key)

RECURSIVE mustGroups(_, _, _, _)
mustGroups(h, w, keys, j) ==
    IF j > Len(keys) THEN w
    ELSE mustGroups(h, mustGroup(h, w, keys[j], mustSet(h, keys[j])), keys, j + 1)

\* lines 158-180, groupName being the bingroup or the fallback name
joinGroup(h, w, i, binDir, groupName, axType_) ==
    IF placeOf(w.opts, groupName) # 0
    THEN IF axType_ = w.opts[placeOf(w.opts, groupName)].axType
         THEN [w EXCEPT !.opts[placeOf(w.opts, groupName)].traces = Append(@, i)]
         ELSE [w EXCEPT !.opts = putOpts(@, [name |-> OwnName(h.data[i], binDir),
                                             traces |-> <<i>>, binDir |-> binDir,
                                             axType |-> axType_]),
                        !.warned = Append(@, i)]
    ELSE [w EXCEPT !.opts = Append(@, [name |-> groupName, traces |-> <<i>>,
                                       binDir |-> binDir, axType |-> axType_])]

\* lines 149-181: one bin direction of one of the other traces
otherDir(h, w, i, binDir) ==
    joinGroup(h, [w EXCEPT !.bingroup[i] = coerceBingroup(h.data[i])], i, binDir,
              IF coerceBingroup(h.data[i]) # NoName
              THEN coerceBingroup(h.data[i]) ELSE OwnName(h.data[i], binDir),
              getAxisType(h.data[i], binDir))

\* lines 142-182
otherTrace(h, w, i) ==
    IF h.data[i].is2d THEN otherDir(h, otherDir(h, w, i, "x"), i, "y")
    ELSE otherDir(h, w, i, orientation2binDir(h.data[i]))

RECURSIVE otherTraces(_, _, _)
otherTraces(h, w, j) ==
    IF j > Len(w.others) THEN w
    ELSE otherTraces(h, otherTrace(h, w, w.others[j]), j + 1)

\* lines 184-191: trace['_groupName' + binDir] after the loop over allBinOpts
groupNameOf(opts, i, d) ==
    IF \E j \in 1..Len(opts) : opts[j].binDir = d /\ i \in SeqRange(opts[j].traces)
    THEN opts[CHOOSE j \in 1..Len(opts) :
                /\ opts[j].binDir = d /\ i \in SeqRange(opts[j].traces)
                /\ \A l \in 1..Len(opts) :
                     (opts[l].binDir = d /\ i \in SeqRange(opts[l].traces)) => l <= j].name
    ELSE NoName

relink(h, w) ==
    [w EXCEPT !.names = [i \in 1..Len(h.data) |->
                           [x |-> groupNameOf(w.opts, i, "x"),
                            y |-> groupNameOf(w.opts, i, "y")]]]

\* the state of lines 37-93: no bin options, the traces sorted
sorted(h) ==
    [h EXCEPT !.opts = <<>>, !.warned = <<>>,
              !.others = SelectSeq(Places(Len(h.data)), LAMBDA i : ~mustMatch(h, i)),
              !.bingroup = [i \in 1..Len(h.data) |-> NoName],
              !.names = [i \in 1..Len(h.data) |-> [x |-> NoName, y |-> NoName]]]

\* crossTraceDefaults(fullData, fullLayout)
crossTraceDefaults(h) ==
    relink(h, otherTraces(h, mustGroups(h, sorted(h), mustKeys(h, 1, <<>>), 1), 1))

(***************************************************************************)
(* SpecHist: crossTraceDefaults on up to MaxTraces histogram traces of the *)
(* axes x, x2 and y.                                                       *)
(***************************************************************************)
MaxTraces == 4

HistTraces(uid) ==
    {[uid |-> uid, is2d |-> FALSE, orientation |-> o, xaxis |-> xa, yaxis |-> "y",
      bingroup |-> g] : o \in {"v", "h"}, xa \in {"x", "x2"}, g \in {"", "g"}}
    \cup {[uid |-> uid, is2d |-> TRUE, orientation |-> "v", xaxis |-> xa, yaxis |-> "y",
           bingroup |-> g] : xa \in {"x", "x2"}, g \in {"", "g"}}

\* fullData: up to MaxTraces traces, the uid of a trace being its place
HistData ==
    {[i \in DOMAIN d |-> [d[i] EXCEPT !.uid = i]] :
        d \in UNION {[1..n -> HistTraces(0)] : n \in 1..MaxTraces}}

HistTypes ==
    {[ax \in Axes |-> "linear"],
     [ax \in Axes |-> IF ax = "x" THEN "linear" ELSE "date"]}

InitHist ==
    \E types \in HistTypes, data \in HistData, overlay \in BOOLEAN :
        /\ InitBlank(types, <<>>, NoInits, BlankStore)
        /\ histogram = [NoHistogram EXCEPT !.data = data, !.overlay = overlay]
        /\ size = ConvSize
        /\ overlaying = [ax \in Axes |-> ""]
        /\ ax_r = [ax \in Axes |-> Undefined]
        /\ range = [ax \in Axes |-> Undefined]
        /\ domain = [ax \in Axes |-> FullDomain]
        /\ ax_offset = [ax \in Axes |-> Undefined]
        /\ ax_length = [ax \in Axes |-> Undefined]
        /\ ax_m = [ax \in Axes |-> Undefined]
        /\ ax_b = [ax \in Axes |-> Undefined]

CrossTraceDefaults ==
    /\ histogram.data # <<>>
    /\ histogram' = crossTraceDefaults(histogram)
    /\ call' = [op |-> "crossTraceDefaults", ax |-> "x", arg |-> Undefined, clip |-> FALSE,
                ret |-> Undefined]
    /\ UNCHANGED <<axType, initialCategories, matchGroups, overlaying, size, dfltVars, exposed,
                   regVars, scaleVars, range, domain, ax_r, replotting, hist>>

NextHist == CrossTraceDefaults

SpecHist == InitHist /\ [][NextHist]_vars

(***************************************************************************)
(* SpecSetup: setConvert run again on the axis objects "x" and "y" after   *)
(* the layout has given them another type.  exposed is the set of          *)
(* conversion entries each axis object holds.                              *)
(***************************************************************************)
\* lines 183-297: the entries of the type are assigned, none is deleted
assignEntries(held, type) == held \cup Entries(type)

SetupAxes == {"x", "y"}

\* ax.type = ty, by the defaults of the layout
Retype ==
    \E ax \in SetupAxes, ty \in Types :
        /\ ty # axType[ax]
        /\ axType' = [axType EXCEPT ![ax] = ty]
        /\ call' = [op |-> "retype", ax |-> ax, arg |-> Str(ty), clip |-> FALSE,
                    ret |-> Undefined]
        /\ UNCHANGED <<initialCategories, matchGroups, overlaying, size, dfltVars, exposed,
                       histogram, regVars, scaleVars, range, domain, ax_r, replotting, hist>>

\* setConvert(ax, fullLayout) on an axis object that exists
SetConvert ==
    \E ax \in SetupAxes :
        /\ exposed' = [exposed EXCEPT ![ax] = assignEntries(exposed[ax], axType[ax])]
        /\ call' = [op |-> "setConvert", ax |-> ax, arg |-> Undefined, clip |-> FALSE,
                    ret |-> Undefined]
        /\ UNCHANGED <<axType, initialCategories, matchGroups, overlaying, size, dfltVars,
                       histogram, regVars, scaleVars, range, domain, ax_r, replotting, hist>>

InitSetup ==
    \E ty \in Types :
        /\ InitBlank([ax \in Axes |-> ty], <<>>, NoInits, BlankStore)
        /\ InitUnscaled

NextSetup == Retype \/ SetConvert

SpecSetup == InitSetup /\ [][NextSetup]_vars

(***************************************************************************)
(* SpecFrac: fraction2r and r2fraction of the axis "x" of SpecConv.        *)
(***************************************************************************)
Fractions == {NumI(0), NumI(1), Num(Rat(1, 2)), NumI(2), NumI(-1), NumI(3)}

FracCall(op, v, ret) ==
    /\ call' = [op |-> op, ax |-> "x", arg |-> v, clip |-> FALSE, ret |-> ret]
    /\ UNCHANGED <<cfgVars, regVars, scaleVars, range, domain, ax_r, replotting, hist>>

Fraction2r ==
    \E f \in Fractions :
        /\ f.t = "num"
        /\ FracCall("fraction2r", f, fraction2r(Ax("x"), f))

\* r2fraction of a value fraction2r gives
R2fraction ==
    \E f \in Fractions :
        /\ range["x"] # Undefined
        /\ FracCall("r2fraction", fraction2r(Ax("x"), f),
                    r2fraction(Ax("x"), fraction2r(Ax("x"), f)))

\* a boolean result
Bool(b) == [t |-> "bool", b |-> b]

\* lines 552-563 with the test of the ascending range only
isPtWithinRange_ascending(a, v) ==
    IF a.range.t # "arr" THEN Throw
    ELSE Bool(/\ JLe(r2l(a, elem(a.range.e, 0)), c2l(a, v, FALSE))
              /\ JLe(c2l(a, v, FALSE), r2l(a, elem(a.range.e, 1))))

\* ax.isPtWithinRange(d), v being d[axLetter]; reading ax.range[0] of a
\* missing range is a TypeError
isPtWithinRange(a, v) ==
    IF a.range.t # "arr" THEN Throw
    ELSE IF JLt(r2l(a, elem(a.range.e, 0)), r2l(a, elem(a.range.e, 1)))
    THEN Bool(/\ JLe(r2l(a, elem(a.range.e, 0)), c2l(a, v, FALSE))
              /\ JLe(c2l(a, v, FALSE), r2l(a, elem(a.range.e, 1))))
    ELSE Bool(/\ JLe(r2l(a, elem(a.range.e, 1)), c2l(a, v, FALSE))
              /\ JLe(c2l(a, v, FALSE), r2l(a, elem(a.range.e, 0))))

IsPtWithinRange ==
    \E v \in Args :
        /\ (axType["x"] = "log" /\ isNumeric(v)) => RLe(RAbs(v.q), R(Pow10(MaxExp)))
        /\ FracCall("isPtWithinRange", v, isPtWithinRange(Ax("x"), v))

\* the linearized values taken to pixels and back
Linears == {NumI(1), NumI(-1), NumI(10000), Num(Rat(1, 2)), Num(Rat(1, 3))}

\* p2l(l2p(x))
P2lOfL2p ==
    \E x \in Linears :
        /\ IsNum(ax_m["x"])
        /\ FracCall("p2l(l2p)", x, p2l(Ax("x"), l2p(Ax("x"), x)))

NextFrac == Fraction2r \/ R2fraction \/ IsPtWithinRange \/ P2lOfL2p

SpecFrac == InitConv /\ [][NextFrac]_vars

(***************************************************************************)
(* Composition of the conversions (C1).                                    *)
(***************************************************************************)
\* the value d2l returns for the argument of the last call, in this state
D2lOfArg ==
    convert(Store, Ax(call.ax), "d2l", call.arg,
            d2l_pure(Ax(call.ax), call.arg, call.clip)).ret

\* a d2p call on a type that defines d2l, of a value d2l gives a position
D2pOfValid ==
    /\ call.op = "d2p"
    /\ axType[call.ax] # "multicategory"
    /\ isNumeric(D2lOfArg)

Registered == Key(call.arg) \in DOMAIN Ax(call.ax).map

C2Ops == {"d2c", "d2l", "d2r", "r2c", "r2l", "d2p", "r2p", "c2p", "l2p"}

InWindow(v) == isNumeric(v) /\ RLe(R(MIN_MS), v.q) /\ RLe(v.q, R(MAX_MS))

\* the argument has no valid position on the axis, for the form op reads
NoPosition(a, op, v, clip) ==
    CASE a.type = "linear" -> ~isNumeric(v)
      [] a.type = "log" ->
            \/ ~isNumeric(v)
            \/ op \in {"d2c", "d2l", "d2r", "d2p", "c2p"} /\ ~clip /\ RLe(v.q, R(0))
      [] a.type = "date" ->
            IF op \in {"c2p", "l2p"} THEN ~isNumeric(v)
            ELSE ~isDateTime(v) /\ ~InWindow(v)
      [] OTHER ->
            IF op \in {"c2p", "l2p"} THEN ~isNumeric(v)
            ELSE IF op \in {"d2c", "d2l"} THEN ~isValidCategory(v)
            ELSE Key(v) \notin DOMAIN a.map /\ ~isNumeric(v)

CallNoPosition ==
    /\ call.op \in C2Ops
    /\ NoPosition(Ax(call.ax), call.op, call.arg, call.clip)

MidRange(a) == fraction2r(a, Num(Rat(1, 2)))

C2Exception(a, op, v, clip) ==
    CASE IsCat(a) /\ op \in {"d2r", "r2l", "r2c"} /\ v.t = "str" /\ v.s \in Inherited -> Fn(v.s)
      [] IsCat(a) /\ op \in {"d2p", "r2p"} /\ v.t = "str" /\ v.s \in Inherited -> BADNUM
      [] IsCat(a) /\ op = "r2c" -> MidRange(a)
      [] IsCat(a) /\ op \in {"d2p", "r2p"} -> l2pOf(a, MidRange(a))
      [] a.type = "date" /\ op = "d2r" -> v
      [] a.type = "date" /\ op \in {"d2c", "d2l", "r2c", "r2l"} /\ isNumeric(v) -> NaN
      [] a.type = "log" /\ op = "r2c" -> NaN
      [] a.type = "log" /\ op = "d2c" /\ isNumeric(v) -> Num(v.q)
      [] a.type = "log" /\ op = "c2p" /\ clip /\ v = Null -> l2p(a, toLog(a, NumI(0), TRUE))
      [] OTHER -> BADNUM

NonInserting == {"d2r", "d2l_noadd", "r2l", "r2c", "r2p", "d2p", "r2c_just_indices"}

\* C5: on category and multicategory axes a call of d2r, d2l_noadd, r2l,
\* r2c, r2p, d2p or the index lookup leaves _categories and _categoriesMap
\* as they were, for every argument.
C5_LookupsDoNotInsert ==
    [][(call'.op \in NonInserting /\ axType[call'.ax] \in {"category", "multicategory"})
          => UNCHANGED regVars]_vars

\* a lookup of a label that is not registered
C5_Witness ==
    /\ call.op \in NonInserting
    /\ axType[call.ax] = "category"
    /\ isValidCategory(call.arg)
    /\ ~Registered

(***************************************************************************)
(* The registry (C3, C4, C6, C7).                                          *)
(***************************************************************************)
CatsOf(ax) == IF categories[ax] = 0 THEN <<>> ELSE heapArr[categories[ax]]
MapOf(ax) == IF categoriesMap[ax] = 0 THEN EmptyMap ELSE heapMap[categoriesMap[ax]]

Holds(cats, v) == \E i \in 1..Len(cats) : Key(cats[i]) = Key(v)
IndexIn(cats, v) == (CHOOSE i \in 1..Len(cats) : Key(cats[i]) = Key(v)) - 1

\* the valid labels of a list in order of first appearance, two labels being
\* the same when their string forms are
RECURSIVE FirstSeen(_)
FirstSeen(h) ==
    IF h = <<>> THEN <<>>
    ELSE LET f == FirstSeen(SubSeq(h, 1, Len(h) - 1))
             x == h[Len(h)]
         IN IF isValidCategory(x) /\ ~Holds(f, x) THEN Append(f, x) ELSE f

\* C3 as stated: from an empty registry the d2c calls give the labels the
\* indices 0, 1, 2, ... in order of first appearance; a registered label
\* gets its index back, null and undefined get BADNUM, and neither adds.
C3_AsStated ==
    /\ CatsOf("x") = FirstSeen(hist)
    /\ hist # <<>> =>
          call.ret = IF isValidCategory(call.arg)
                     THEN NumI(IndexIn(FirstSeen(hist), call.arg))
                     ELSE BADNUM

\* the registry of an axis is a bijection between labels and 0..length-1
Bijection(ax) ==
    (categories[ax] # 0 /\ categoriesMap[ax] # 0) =>
        /\ Cardinality(DOMAIN MapOf(ax)) = Len(CatsOf(ax))
        /\ \A k \in DOMAIN MapOf(ax) :
              /\ MapOf(ax)[k] \in 0..(Len(CatsOf(ax)) - 1)
              /\ Key(CatsOf(ax)[MapOf(ax)[k] + 1]) = k

\* a step other than clearCalc of the axis keeps every index of its map
KeepsIndices(ax) ==
    (call'.op # "clearCalc" \/ call'.ax # ax) =>
        \A k \in DOMAIN MapOf(ax) : k \in DOMAIN MapOf(ax)' /\ MapOf(ax)'[k] = MapOf(ax)[k]

\* C4: every registry is a bijection in every reachable state, and between
\* two clears of an axis no insert or lookup changes an index of its map.
C4_StableBijection ==
    /\ [](\A ax \in Axes : Bijection(ax))
    /\ [][\A ax \in Axes : KeepsIndices(ax)]_vars

\* a second label registered behind a first one
C4_Witness ==
    /\ call.op = "d2c"
    /\ call.ret = NumI(1)
    /\ Len(CatsOf(call.ax)) = 2
    /\ MapOf(call.ax)[Key(call.arg)] = 1

\* C6 as stated: after clearCalc the registry of the axis holds exactly its
\* distinct initial categories in list order, in a match group or not.
C6_AsStated ==
    [][\A ax \in Axes :
          (call'.op = "clearCalc" /\ call'.ax = ax) =>
              CatsOf(ax)' = FirstSeen(initialCategories[ax])]_vars

\* the registry clearCalc starts from: in a match group that of the first
\* member, in key order, that has one; empty otherwise
Adopted(ax) ==
    IF \E i \in 1..Len(matchGroups) : \E j \in 1..Len(matchGroups[i]) : matchGroups[i][j] = ax
    THEN LET g == matchGroups[CHOOSE i \in 1..Len(matchGroups) :
                                 \E j \in 1..Len(matchGroups[i]) : matchGroups[i][j] = ax]
             has == {j \in 1..Len(g) : categories[g[j]] # 0}
         IN IF has = {} THEN <<>>
            ELSE CatsOf(g[CHOOSE j \in has : \A j2 \in has : j <= j2])
    ELSE <<>>

\* a list extended, in order, by the valid labels it does not hold and that
\* name nothing an object inherits
RECURSIVE Reseed(_, _)
Reseed(cats, init) ==
    IF init = <<>> THEN cats
    ELSE Reseed(IF /\ isValidCategory(Head(init))
                   /\ ~Holds(cats, Head(init))
                   /\ ~(Head(init).t = "str" /\ Head(init).s \in Inherited)
                THEN Append(cats, Head(init)) ELSE cats,
                Tail(init))

\* C6, amended: after clearCalc the registry of the axis is the registry it
\* started from (in a match group that of the first member that has one,
\* not emptied; the empty one otherwise) extended by the initial categories
\* it did not hold, in list order.
C6_AdoptThenReseed ==
    [][\A ax \in Axes :
          (call'.op = "clearCalc" /\ call'.ax = ax) =>
              CatsOf(ax)' = Reseed(Adopted(ax), initialCategories[ax])]_vars

\* clearCalc of a grouped axis that kept what its peer had registered
C6_Witness ==
    /\ call.op = "clearCalc"
    /\ call.ax = "x"
    /\ matchGroups # <<>>
    /\ initialCategories["x"] = <<Str("a")>>
    /\ CatsOf("x") = <<NumI(1), Str("a")>>

\* the axes of a group hold one registry
SameRegistry(g) ==
    \A j1, j2 \in 1..Len(g) :
        /\ categories[g[j1]] = categories[g[j2]]
        /\ categoriesMap[g[j1]] = categoriesMap[g[j2]]
        /\ \A v \in RegLabels :
              getCategoryIndex(Ax(g[j1]), v) = getCategoryIndex(Ax(g[j2]), v)

\* C7: once clearCalc has run on every axis of a match group, the axes of
\* the group hold one and the same registry, so that each finds a category
\* at the index any of them registered it at.
C7_GroupSharesRegistry ==
    \A i \in 1..Len(matchGroups) :
        (\A j \in 1..Len(matchGroups[i]) : categories[matchGroups[i][j]] # 0)
            => SameRegistry(matchGroups[i])

\* a label registered through x2 and found by x at the same index
C7_Witness ==
    /\ matchGroups = <<<<"x", "x2">>>>
    /\ categories["x"] # 0 /\ categories["x2"] # 0
    /\ call.op = "d2c" /\ call.ax = "x2" /\ call.ret = NumI(1)
    /\ Len(CatsOf("x2")) = 2
    /\ getCategoryIndex(Ax("x"), call.arg) = NumI(1)

(***************************************************************************)
(* The order of the pairs (C8).                                            *)
(***************************************************************************)
\* the axes matched with ax, in key order
PeersOf(ax) ==
    IF \E i \in 1..Len(matchGroups) : \E j \in 1..Len(matchGroups[i]) : matchGroups[i][j] = ax
    THEN SelectSeq(matchGroups[CHOOSE i \in 1..Len(matchGroups) :
                                  \E j \in 1..Len(matchGroups[i]) : matchGroups[i][j] = ax],
                   LAMBDA ax2 : ax2 # ax)
    ELSE <<>>

RECURSIVE TracePts(_, _)
TracePts(axes, fullData) ==
    IF axes = <<>> THEN <<>>
    ELSE pointsOf(SelectSeq([i \in 1..Len(fullData) |-> i],
                            LAMBDA i : fullData[i].ax = Head(axes)), fullData)
         \o TracePts(Tail(axes), fullData)

\* the points with two valid keys of the traces of the axis and of its peers
Contributing(ax, fullData) ==
    SelectSeq(TracePts(<<ax>> \o PeersOf(ax), fullData),
              LAMBDA pt : isValidCategory(pt.v0) /\ isValidCategory(pt.v1))

\* the order of first appearance of a first key, and of a second key
Rank0(pts, k) == CHOOSE i \in 1..Len(pts) : pts[i].v0.s = k /\ \A j \in 1..(i - 1) : pts[j].v0.s # k
Rank1(pts, k) == CHOOSE i \in 1..Len(pts) : pts[i].v1.s = k /\ \A j \in 1..(i - 1) : pts[j].v1.s # k

LexLess(pts, p, q) ==
    \/ Rank0(pts, p.a) < Rank0(pts, q.a)
    \/ Rank0(pts, p.a) = Rank0(pts, q.a) /\ Rank1(pts, p.b) < Rank1(pts, q.b)

Observed(pts, p) == \E i \in 1..Len(pts) : pts[i].v0.s = p.a /\ pts[i].v1.s = p.b

OrderedByRank(reg, pts) ==
    \A i, j \in 1..Len(reg) :
        (Observed(pts, reg[i]) /\ Observed(pts, reg[j])) =>
            (i < j <=> LexLess(pts, reg[i], reg[j]))

\* C8 as stated: after setupMultiCategory every observed pair is registered
\* and the indices of the pairs follow the lexicographic order of (rank of
\* the first key, rank of the second key), the ranks being the order of
\* first appearance over the traces of the axis and of its peers.
C8_AsStated ==
    call.op = "setupMultiCategory" =>
        /\ \A i \in 1..Len(Contributing(call.ax, call.arg)) :
              Holds(CatsOf(call.ax), Pair(Contributing(call.ax, call.arg)[i].v0.s,
                                          Contributing(call.ax, call.arg)[i].v1.s))
        /\ OrderedByRank(CatsOf(call.ax), Contributing(call.ax, call.arg))

(***************************************************************************)
(* The cleaned range (C9).                                                 *)
(***************************************************************************)
\* C9 as stated: after cleanRange the range attribute is a couplet whose
\* endpoints linearize to two valid numbers that differ.
C9_AsStated ==
    call.op = "cleanRange" =>
        /\ range[call.ax].t = "arr"
        /\ Len(range[call.ax].e) = 2
        /\ IsNum(r2l(Ax(call.ax), range[call.ax].e[1]))
        /\ IsNum(r2l(Ax(call.ax), range[call.ax].e[2]))
        /\ r2l(Ax(call.ax), range[call.ax].e[1]) # r2l(Ax(call.ax), range[call.ax].e[2])

(***************************************************************************)
(* The scale (C10).                                                        *)
(***************************************************************************)
Scaled == call.op = "setScale" /\ call.ret # Throw

\* the side of the plot area the axis runs along
Dimension(ax) == IF axLetter(ax) = "y" THEN size.h ELSE size.w

LengthIsShare(ax) ==
    ax_length[ax] = JMul(Dimension(ax), JSub(domain[ax][2], domain[ax][1]))

\* the pixels of the two ends of a range, from the low edge to the high edge
PixelsOf(ax, rng) ==
    IF axLetter(ax) = "y"
    THEN <<l2p(Ax(ax), r2l(Ax(ax), rng.e[2])), l2p(Ax(ax), r2l(Ax(ax), rng.e[1]))>>
    ELSE <<l2p(Ax(ax), r2l(Ax(ax), rng.e[1])), l2p(Ax(ax), r2l(Ax(ax), rng.e[2]))>>

\* _m is _length over the linearized span of the range, from the end at
\* pixel 0 to the other one
SlopeIsRatio(ax, rng) ==
    ax_m[ax] = JDiv(ax_length[ax],
                    IF axLetter(ax) = "y"
                    THEN JSub(r2l(Ax(ax), rng.e[1]), r2l(Ax(ax), rng.e[2]))
                    ELSE JSub(r2l(Ax(ax), rng.e[2]), r2l(Ax(ax), rng.e[1])))

\* C10 as stated: after a successful setScale _length is the side of the
\* plot area times the share of the domain, _m is _length over the span of
\* range, and l2p takes the linearized ends of range to 0 and to _length
\* (the other way round on a y axis).
C10_AsStated ==
    Scaled => /\ LengthIsShare(call.ax)
              /\ SlopeIsRatio(call.ax, range[call.ax])
              /\ PixelsOf(call.ax, range[call.ax]) = <<NumI(0), ax_length[call.ax]>>

\* the range setScale worked on: _r when asked to and _r is set
ScaledRange(ax) == IF call.clip /\ ax_r[ax] # Undefined THEN ax_r[ax] ELSE range[ax]

\* C10, amended: after a successful setScale _length is the side of the
\* plot area times the share of the domain, _m is _length over the span of
\* the range setScale worked on (_r under usePrivateRange), and l2p takes
\* the linearized ends of that range to 0 and to _length rounded to two
\* decimals (the other way round on a y axis).
C10_EndsOnRoundedEdges ==
    Scaled => /\ LengthIsShare(call.ax)
              /\ SlopeIsRatio(call.ax, ScaledRange(call.ax))
              /\ PixelsOf(call.ax, ScaledRange(call.ax))
                    = <<NumI(0), d3round2(ax_length[call.ax])>>

\* a y axis scaled to a length of 100.125 pixels
C10_Witness ==
    /\ Scaled
    /\ call.ax = "y"
    /\ ax_length["y"] = Num(Rat(801, 8))
    /\ PixelsOf("y", range["y"]) = <<NumI(0), Num(Rat(10013, 100))>>

(***************************************************************************)
(* The failure of setScale (C11).                                          *)
(***************************************************************************)
\* the scale of the axis is unusable: line 485 on the fields just assigned
ScaleFails(ax) ==
    \/ ~isFinite(ax_m[ax])
    \/ ~isFinite(ax_b[ax])
    \/ JLt(ax_length[ax], NumI(0))

\* C11: setScale raises exactly when the slope or the intercept it computed
\* is not finite or the length is negative; it then has set _replotting to
\* false, and otherwise it returns and leaves _replotting alone.
C11_RaisesOnBadScale ==
    [][\A ax \in Axes :
          (call'.op = "setScale" /\ call'.ax = ax) =>
              /\ (call'.ret = Throw) <=> ScaleFails(ax)'
              /\ call'.ret = Throw => ~replotting'
              /\ call'.ret # Throw => replotting' = replotting]_vars

\* setScale raising for a negative length alone, on a reversed domain
C11_Witness ==
    /\ call.op = "setScale"
    /\ call.ret = Throw
    /\ ~replotting
    /\ isFinite(ax_m[call.ax]) /\ isFinite(ax_b[call.ax])
    /\ JLt(ax_length[call.ax], NumI(0))

(***************************************************************************)
(* The array of makeCalcdata (C12, C13).                                   *)
(***************************************************************************)
\* the trace has a row count: a declared one, or an array to take it from
HasRowCount(trace) ==
    trace.len # Undefined \/ trace.has \/ isArrayOrTypedArray(trace.other)

\* trace._length when it is set, otherwise the least row length of the
\* field, or the length of the companion array when the field is absent
RowCount(trace) ==
    IF trace.len # Undefined THEN trace.len.q.n
    ELSE IF trace.has THEN minRowLength(trace.v)
    ELSE Len(trace.other.e)

\* C12 as stated: the array makeCalcdata returns has as many elements as
\* the trace has rows, on every axis type and on the typed-array path too.
C12_AsStated ==
    (call.op = "makeCalcdata" /\ HasRowCount(call.arg)) =>
        /\ isArrayOrTypedArray(call.ret)
        /\ Len(call.ret.e) = RowCount(call.arg)

\* C13 as stated: makeCalcdata does not raise, and every element of the
\* array it returns is a number or BADNUM.
C13_AsStated ==
    call.op = "makeCalcdata" =>
        /\ isArrayOrTypedArray(call.ret)
        /\ \A i \in 1..Len(call.ret.e) : IsNum(call.ret.e[i]) \/ call.ret.e[i] = BADNUM

(***************************************************************************)
(* Clipping on a log axis (C14, C15).                                      *)
(***************************************************************************)
\* the range of the axis holds two numbers
LogRange(ax) ==
    /\ range[ax].t = "arr"
    /\ Len(range[ax].e) = 2
    /\ IsNum(range[ax].e[1]) /\ IsNum(range[ax].e[2])

\* a call of op on a log axis with a number
LogCall(op) == call.op = op /\ axType[call.ax] = "log" /\ IsNum(call.arg)

\* the lower edge of the range, its middle and its length
LowerEdge(ax) ==
    IF RLt(range[ax].e[1].q, range[ax].e[2].q) THEN range[ax].e[1].q ELSE range[ax].e[2].q
Middle(ax) == RMul(Rat(1, 2), RAdd(range[ax].e[1].q, range[ax].e[2].q))
AxisLength(ax) == RAbs(RSub(range[ax].e[1].q, range[ax].e[2].q))

ClippedCall ==
    /\ call.op \in {"c2p", "d2p"}
    /\ axType[call.ax] = "log"
    /\ call.clip
    /\ isNumeric(call.arg) /\ RLe(call.arg.q, R(0))
    /\ range[call.ax].t = "arr" /\ Len(range[call.ax].e) = 2
    /\ IsNum(r2l(Ax(call.ax), range[call.ax].e[1]))
    /\ IsNum(r2l(Ax(call.ax), range[call.ax].e[2]))
    /\ r2l(Ax(call.ax), range[call.ax].e[1]) # r2l(Ax(call.ax), range[call.ax].e[2])
    /\ IsNum(ax_m[call.ax]) /\ IsNum(ax_b[call.ax])

\* the linearized value the position is computed from
ClippedTo == toLog(Ax(call.ax), cleanNumber(call.arg), TRUE)

\* C15 as stated: on a log axis whose range has two distinct ends, c2p and
\* d2p with clipping take a number that is not positive to a numeric
\* position, whose linearized value lies below both ends of the range.
C15_AsStated ==
    ClippedCall =>
        /\ IsNum(call.ret)
        /\ IsNum(ClippedTo)
        /\ JLt(ClippedTo, r2l(Ax(call.ax), range[call.ax].e[1]))
        /\ JLt(ClippedTo, r2l(Ax(call.ax), range[call.ax].e[2]))


(***************************************************************************)
(* C16: the default range is copied, and the defaults stay as they are.    *)
(***************************************************************************)
\* an endpoint cleanRange takes for invalid on an axis of type ty
InvalidEnd(ty, v) ==
    IF ty = "date" THEN ~isDateTime(cleanDate(v, BADNUM)) ELSE ~isNumeric(v)

\* the attribute is absent, not of length 2, or both its endpoints are invalid
NoUsableRange(ty, attr) ==
    \/ attr.t # "arr"
    \/ Len(attr.e) # 2
    \/ (InvalidEnd(ty, attr.e[1]) /\ InvalidEnd(ty, attr.e[2]))

\* the default the type and the letter of the axis call for
TypeDefault(ax, opts) ==
    IF axType[ax] = "date" THEN dfltRange
    ELSE IF ax = "y" THEN DFLTRANGEY
    ELSE IF opts # Undefined THEN opts ELSE DFLTRANGEX

\* C16: after cleanRange on an attribute that is absent, not of length 2 or
\* has two invalid endpoints, the attribute holds the default of the axis
\* (the calendar default on a date axis, DFLTRANGEY on a y axis, else
\* opts.dfltRange or DFLTRANGEX) in an array of its own, and the default
\* constants are what they were at the start whatever calls have been made.
C16_DefaultIsCopied ==
    /\ dfltConsts = [d |-> dfltRange, x |-> DFLTRANGEX, y |-> DFLTRANGEY]
    /\ (call.op = "cleanRange" /\ NoUsableRange(axType[call.ax], call.arg))
          => (/\ range[call.ax] = TypeDefault(call.ax, call.opts)
              /\ rangeObj[call.ax] = "own")

\* cleanRange has replaced an attribute of two invalid endpoints on an x axis
\* that was given opts.dfltRange
C16_Witness ==
    /\ call.op = "cleanRange"
    /\ call.ax = "x"
    /\ axType["x"] = "linear"
    /\ call.arg = Arr(<<Null, Null>>)
    /\ call.opts = Arr(<<NumI(0), NumI(1)>>)
    /\ range["x"] = Arr(<<NumI(0), NumI(1)>>)


(***************************************************************************)
(* C17: one invalid endpoint of a numeric axis.                            *)
(***************************************************************************)
Couplet(attr) == attr.t = "arr" /\ Len(attr.e) = 2

\* cleanRange has just run on a couplet of a numeric (non-date) axis
CleanedNumeric ==
    call.op = "cleanRange" /\ axType[call.ax] # "date" /\ Couplet(call.arg)

OneInvalid == isNumeric(call.arg.e[1]) # isNumeric(call.arg.e[2])

\* the place (1 or 2) of the invalid endpoint, the valid endpoint, its number
InvalidAt == IF isNumeric(call.arg.e[1]) THEN 2 ELSE 1

ValidEnd == call.arg.e[3 - InvalidAt]

ValidQ == ToNumber(ValidEnd).q

Factor == IF InvalidAt = 2 THEN R(10) ELSE Rat(1, 10)

\* C17 as stated: with exactly one invalid endpoint on a numeric axis, the
\* invalid range[0] ends as 0.1 times range[1] and the invalid range[1] as
\* 10 times range[0], whatever the valid value (zero and negatives too).
C17_AsStated ==
    (CleanedNumeric /\ OneInvalid)
        => range[call.ax].e[InvalidAt] = Num(RMul(ValidQ, Factor))

ClampQ(q) ==
    IF RLt(q, R(-FP_SAFE)) THEN R(-FP_SAFE)
    ELSE IF RLt(R(FP_SAFE), q) THEN R(FP_SAFE) ELSE q

\* the valid endpoint after the call: itself within the bound, the bound beyond
KeptEnd == IF ClampQ(ValidQ) = ValidQ THEN ValidEnd ELSE Num(ClampQ(ValidQ))

\* the factor times the valid endpoint (range[0] already clamped when
\* range[1] is made from it), clamped in its turn
SynthQ == ClampQ(RMul(IF InvalidAt = 2 THEN ClampQ(ValidQ) ELSE ValidQ, Factor))

SynthEnds ==
    IF InvalidAt = 1 THEN <<Num(SynthQ), KeptEnd>> ELSE <<KeptEnd, Num(SynthQ)>>

IncOf(q) == RMax(R(1), RMul(RAbs(q), Rat(1, PPM)))

\* C17, amended: the invalid endpoint is made as 0.1 times (range[0]) or 10
\* times (range[1]) the valid one and then clamped to the safe bound; when
\* the two endpoints are then the same number (a valid endpoint of 0, or
\* both on the bound) they are split by max(1, 1e-6 of the value), so that
\* [invalid, 0] ends as [-1, 1]; otherwise the range ends as the made
\* endpoint beside the valid one.
C17_SynthesizedThenSplit ==
    (CleanedNumeric /\ OneInvalid)
        => range[call.ax] =
             IF SynthEnds[1] = SynthEnds[2]
             THEN Arr(<<Num(RSub(SynthQ, IncOf(SynthQ))), Num(RAdd(SynthQ, IncOf(SynthQ)))>>)
             ELSE Arr(SynthEnds)

\* cleanRange has made [-1, 1] of the couplet [null, 0] of a linear axis
C17_Witness ==
    /\ CleanedNumeric
    /\ axType[call.ax] = "linear"
    /\ call.arg = Arr(<<Null, NumI(0)>>)
    /\ range[call.ax] = Arr(<<NumI(-1), NumI(1)>>)


(***************************************************************************)
(* C18: two equal endpoints of a numeric axis.                             *)
(***************************************************************************)
\* both endpoints are valid and are the same number
EqualEnds ==
    /\ isNumeric(call.arg.e[1])
    /\ isNumeric(call.arg.e[2])
    /\ ToNumber(call.arg.e[1]) = ToNumber(call.arg.e[2])

EqualQ == ToNumber(call.arg.e[1]).q

\* C18 as stated: on a numeric axis a range of two equal endpoints v ends as
\* [v - inc, v + inc] with inc = max(1, |v| * 1e-6), as [5, 5] ends as [4, 6].
C18_AsStated ==
    (CleanedNumeric /\ EqualEnds)
        => range[call.ax] = Arr(<<Num(RSub(EqualQ, IncOf(EqualQ))),
                                  Num(RAdd(EqualQ, IncOf(EqualQ)))>>)


(***************************************************************************)
(* C19: the safe bound.                                                    *)
(***************************************************************************)
WithinSafe(v) == isNumeric(v) /\ ClampQ(ToNumber(v).q) = ToNumber(v).q

\* C19 as stated: after cleanRange on a numeric axis both endpoints of the
\* range lie within [-FP_SAFE, FP_SAFE], whatever the range was before.
C19_AsStated ==
    (call.op = "cleanRange" /\ axType[call.ax] # "date")
        => /\ Couplet(range[call.ax])
           /\ WithinSafe(range[call.ax].e[1])
           /\ WithinSafe(range[call.ax].e[2])


(***************************************************************************)
(* C20: two equal endpoints of a date axis.                                *)
(***************************************************************************)
\* cleanRange has just run on a couplet of a date axis whose endpoints are
\* both valid dates (a number of ms counts as one) of the same ms
CleanedEqualDates ==
    /\ call.op = "cleanRange"
    /\ axType[call.ax] = "date"
    /\ Couplet(call.arg)
    /\ isDateTime(cleanDate(call.arg.e[1], BADNUM))
    /\ isDateTime(cleanDate(call.arg.e[2], BADNUM))
    /\ cleanDate(call.arg.e[1], BADNUM).ms = cleanDate(call.arg.e[2], BADNUM).ms

\* the common ms, brought into [MIN_MS + 1 s, MAX_MS - 1 s]
LinCenter ==
    LET c == cleanDate(call.arg.e[1], BADNUM).ms
    IN IF c < MIN_MS + ONESEC THEN MIN_MS + ONESEC
       ELSE IF c > MAX_MS - ONESEC THEN MAX_MS - ONESEC ELSE c

\* C20: on a date axis a range of two valid endpoints of the same ms ends as
\* the dates one second before and one second after that ms, the ms first
\* brought into [MIN_MS + 1000, MAX_MS - 1000], so that both ends are dates
\* of the supported span.
C20_SplitBySecond ==
    CleanedEqualDates
        => /\ range[call.ax] = Arr(<<Date(LinCenter - ONESEC), Date(LinCenter + ONESEC)>>)
           /\ LinCenter - ONESEC >= MIN_MS
           /\ LinCenter + ONESEC <= MAX_MS
           /\ isDateTime(l2r(Ax(call.ax), NumI(LinCenter - ONESEC)))
           /\ isDateTime(l2r(Ax(call.ax), NumI(LinCenter + ONESEC)))

\* cleanRange has split two endpoints at the last supported ms
C20_Witness ==
    /\ CleanedEqualDates
    /\ call.arg = Arr(<<Date(MAX_MS), Date(MAX_MS)>>)
    /\ range[call.ax] = Arr(<<Date(MAX_MS - 2 * ONESEC), Date(MAX_MS)>>)


(***************************************************************************)
(* C21: fraction2r and r2fraction.                                         *)
(***************************************************************************)
\* the two linearized endpoints of the range of the axis
Rl0(ax) == r2l(Ax(ax), range[ax].e[1])

Rl1(ax) == r2l(Ax(ax), range[ax].e[2])

\* the range is a couplet of two endpoints with distinct linearized values
ValidRange(ax) ==
    /\ Couplet(range[ax])
    /\ IsNum(Rl0(ax))
    /\ IsNum(Rl1(ax))
    /\ Rl0(ax) # Rl1(ax)

FractionCalled == call.op = "fraction2r" /\ ValidRange(call.ax)

\* the linearized value at the fraction of the last call
AtFraction == JAdd(Rl0(call.ax), JMul(call.arg, JSub(Rl1(call.ax), Rl0(call.ax))))

\* C21 as stated: with a valid range, on every type, fraction2r(0) and
\* fraction2r(1) linearize to the two endpoints, fraction2r(f) linearizes to
\* rl0 + f (rl1 - rl0), and r2fraction of fraction2r(f) is f.
C21_AsStated ==
    FractionCalled
        => /\ r2l(Ax(call.ax), call.ret) = AtFraction
           /\ r2fraction(Ax(call.ax), call.ret) = call.arg


(***************************************************************************)
(* C22: the sequence made when the field is absent.                        *)
(***************************************************************************)
\* makeCalcdata has run on a trace without the field but with a companion
SequenceMade ==
    /\ call.op = "makeCalcdata"
    /\ ~call.arg.has
    /\ isArrayOrTypedArray(call.arg.other)

\* d2c of the start of the trace, 0 when the trace has none
StartOf(trace) ==
    IF trace.has0 THEN d2cCall(Store, call.ax, trace.v0).ret ELSE NumI(0)

\* the step of the trace, 1 when the trace has none
StepOf(trace) == IF trace.dv = Undefined THEN NumI(1) ELSE ToNumber(trace.dv)

\* C22 as stated: without the field, makeCalcdata returns the sequence whose
\* i-th element is v0 + i * dv, v0 being d2c of the start (0 when not given)
\* and dv the step (1 when not given), for every start and numeric step.
C22_AsStated ==
    SequenceMade
        => /\ isArrayOrTypedArray(call.ret)
           /\ \A i \in 1..Len(call.ret.e) :
                call.ret.e[i] = JAdd(StartOf(call.arg), JMul(NumI(i - 1), StepOf(call.arg)))


(***************************************************************************)
(* C23: the typed array handed through.                                    *)
(***************************************************************************)
\* makeCalcdata has run on a typed array of a linear or log axis
TypedGiven ==
    /\ call.op = "makeCalcdata"
    /\ call.arg.has
    /\ isTypedArray(call.arg.v)
    /\ axType[call.ax] \in {"linear", "log"}

\* the row count of line 508
LenOf(trace) == rowLen(trace.len, minRowLength(trace.v))

\* C23 as stated: on a linear or log axis a typed array comes back as it is
\* when its length is the row count, and otherwise as its first len
\* elements, none of them converted.
C23_AsStated ==
    TypedGiven
        => /\ isTypedArray(call.ret)
           /\ Len(call.ret.e) = LenOf(call.arg)
           /\ \A i \in 1..Len(call.ret.e) :
                i <= Len(call.arg.v.e) /\ call.ret.e[i] = call.arg.v.e[i]


(***************************************************************************)
(* C24: isPtWithinRange.                                                   *)
(***************************************************************************)
PtTested == call.op = "isPtWithinRange" /\ ValidRange(call.ax)

\* the linearized coordinate of the point of the last call
CoordOf(ax) == c2l(Ax(ax), call.arg, FALSE)

\* the coordinate is a number between the two linearized endpoints, in
\* whichever order they come
Between(ax) ==
    /\ IsNum(CoordOf(ax))
    /\ \/ RLe(Rl0(ax).q, CoordOf(ax).q) /\ RLe(CoordOf(ax).q, Rl1(ax).q)
       \/ RLe(Rl1(ax).q, CoordOf(ax).q) /\ RLe(CoordOf(ax).q, Rl0(ax).q)

\* the axis with the two endpoints of its range exchanged
Reversed(ax) == [Ax(ax) EXCEPT !.range = Arr(<<range[ax].e[2], range[ax].e[1]>>)]

\* C24: with a valid range, isPtWithinRange(d) is true exactly when the
\* linearized coordinate of d is a number between the two linearized
\* endpoints, both included; it answers the same on the reversed range, and
\* never true for a coordinate without a position (BADNUM).
C24_WithinIffBetween ==
    PtTested
        => /\ call.ret = Bool(Between(call.ax))
           /\ isPtWithinRange(Reversed(call.ax), call.arg) = call.ret
           /\ (CoordOf(call.ax) = BADNUM => call.ret = Bool(FALSE))

\* a point has been found within a reversed range
C24_Witness ==
    /\ PtTested
    /\ RLt(Rl1(call.ax).q, Rl0(call.ax).q)
    /\ call.ret = Bool(TRUE)


(***************************************************************************)
(* C25: from pixels back to the linearized value.                          *)
(***************************************************************************)
BackFromPixels == call.op = "p2l(l2p)"

C26_AsStated ==
    call.op = "setConvert"
        => /\ exposed[call.ax] = Entries(axType[call.ax])
           /\ axType[call.ax] = "multicategory"
                => ("d2c" \notin exposed[call.ax] /\ "d2l" \notin exposed[call.ax])


(***************************************************************************)
(* C27, C28: the bin groups of the histogram traces.                       *)
(***************************************************************************)
Defaulted == call.op = "crossTraceDefaults"

TraceIds == 1..Len(histogram.data)

\* the bin directions of a trace: both for a 2D map, else that of its
\* orientation
BinDirs(i) ==
    IF histogram.data[i].is2d THEN {"x", "y"}
    ELSE {orientation2binDir(histogram.data[i])}

\* the entry of _histogramBinOpts of the given name, which exists
OptsOf(name) == histogram.opts[placeOf(histogram.opts, name)]

HasOpts(name) == placeOf(histogram.opts, name) # 0

\* the trace asks, for the direction d, for a bingroup that is set up on an
\* axis of another type than its own
Mismatched(i, d) ==
    /\ histogram.bingroup[i].k = "given"
    /\ HasOpts(histogram.bingroup[i])
    /\ OptsOf(histogram.bingroup[i]).axType # getAxisType(histogram.data[i], d)

\* C27 as stated: a trace whose bingroup names a group set up on an axis of
\* another type has been warned about and stands alone in its fallback
\* group (uid and direction), and every group holds only traces of which a
\* bin-direction axis has the axType of the group.
C27_AsStated ==
    Defaulted
        => /\ \A i \in TraceIds : \A d \in BinDirs(i) :
                Mismatched(i, d)
                    => /\ i \in SeqRange(histogram.warned)
                       /\ HasOpts(OwnName(histogram.data[i], d))
                       /\ OptsOf(OwnName(histogram.data[i], d)).traces = <<i>>
           /\ \A j \in 1..Len(histogram.opts) :
                \A i \in SeqRange(histogram.opts[j].traces) :
                    \E d \in BinDirs(i) :
                        getAxisType(histogram.data[i], d) = histogram.opts[j].axType

\* the number of times the trace is listed
Listed(traces, i) == Cardinality({l \in 1..Len(traces) : traces[l] = i})

\* C28 as stated: after crossTraceDefaults, for every trace and each of its
\* bin directions, _groupName of that direction names an entry of
\* _histogramBinOpts whose binDir is that direction and whose traces hold
\* the trace exactly once.
C28_AsStated ==
    Defaulted
        => \A i \in TraceIds : \A d \in BinDirs(i) :
             /\ histogram.names[i][d] # NoName
             /\ HasOpts(histogram.names[i][d])
             /\ OptsOf(histogram.names[i][d]).binDir = d
             /\ Listed(OptsOf(histogram.names[i][d]).traces, i) = 1


(***************************************************************************)
(* C29: the slope after setScale.                                          *)
(***************************************************************************)
\* C29 as stated: whenever setScale returns normally, _m is a finite number
\* other than zero, and p2l of a finite pixel is finite.
C29_AsStated ==
    Scaled
        => /\ isFinite(ax_m[call.ax])
           /\ ax_m[call.ax] # NumI(0)
           /\ isFinite(p2l(Ax(call.ax), NumI(1)))


(***************************************************************************)
(* C30: cleanRange applied to its own result.                              *)
(***************************************************************************)
\* cleanRange has just been applied to the range of an axis
Cleaned == call.op = "cleanRange"

\* the range a second cleanRange with the same options would leave
CleanedAgain == cleanRange(Ax(call.ax), range[call.ax], call.opts)

\* both endpoints of the range before the call are valid for the type (date
\* strings on a date axis; numbers within the safe bound on the others), and
\* differ
DistinctValid ==
    /\ Couplet(call.arg)
    /\ IF axType[call.ax] = "date"
       THEN isDateTime(call.arg.e[1]) /\ isDateTime(call.arg.e[2])
       ELSE WithinSafe(call.arg.e[1]) /\ WithinSafe(call.arg.e[2])
    /\ r2l(Ax(call.ax), call.arg.e[1]) # r2l(Ax(call.ax), call.arg.e[2])

\* C30 as stated: a second cleanRange leaves the range the first one made,
\* for every type and initial range, and a range of two distinct valid
\* endpoints within bounds is not modified by cleanRange.
C30_AsStated ==
    Cleaned
        => /\ CleanedAgain = range[call.ax]
           /\ DistinctValid => range[call.ax] = call.arg

====
